---- MODULE Spec2Model ----
(***************************************************************************)
(* A model of the IndieAuth / OAuth flow of the micropub CLI               *)
(* (src/src/auth.rs): endpoint discovery, the local callback listener with *)
(* its shutdown watcher and 5-minute ceiling, CSRF verification, the code  *)
(* exchange, the token validation probe and the persistence of the token   *)
(* and the profile.                                                        *)
(*                                                                         *)
(* Strings are TLA+ strings; prefix tests, splitting and character tests   *)
(* are computed on them with Len, SubSeq and \o, as the Rust code computes *)
(* them with starts_with, Url::parse and chars().                          *)
(***************************************************************************)
EXTENDS Integers, Sequences, FiniteSets, TLC

(***************************************************************************)
(* Bounds of the model.                                                    *)
(***************************************************************************)
\* Callback requests that reach the listener during one flow.
MaxRequests == 2
\* The 300 s ceiling of start_callback_server counted in 100 ms polls of the
\* shutdown watcher (3000 in the program, scaled down here).
DeadlineTicks == 2

\* The longest scope string tried on validate_scope.
MaxScopeLen == 2

\* The number of random bytes generate_state renders (32 in auth.rs 200).
StateBytes == 2

\* The number of push and publish commands run on one draft.
MaxCommands == 3

\* The number of draft files the TUI session ever sees (found at start or
\* created with 'n').
MaxDrafts == 2

None == "None"

(***************************************************************************)
(* String helpers (str::starts_with, str::find, slicing).                  *)
(***************************************************************************)
StartsWith(s, p) == Len(s) >= Len(p) /\ SubSeq(s, 1, Len(p)) = p

CharAt(s, i) == SubSeq(s, i, i)

\* Index of the first occurrence of p in s at or after position from, 0 if none.
RECURSIVE FindFrom(_, _, _)
FindFrom(s, p, from) ==
    IF from + Len(p) - 1 > Len(s) THEN 0
    ELSE IF SubSeq(s, from, from + Len(p) - 1) = p THEN from
    ELSE FindFrom(s, p, from + 1)

Find(s, p) == FindFrom(s, p, 1)

Tail_(s, i) == SubSeq(s, i, Len(s))

(***************************************************************************)
(* Url::parse, restricted to what the flow reads: scheme, host, port.      *)
(* A URL is scheme "://" authority [ "/" path ]; the authority is a host   *)
(* (a name, an IPv4 address or a bracketed IPv6 address) and an optional   *)
(* ":" port.  The port is reported as absent when it is the scheme's       *)
(* default (url::Url::port).                                               *)
(***************************************************************************)
UrlScheme(u) ==
    LET i == Find(u, "://") IN IF i = 0 THEN "" ELSE SubSeq(u, 1, i - 1)

UrlAuthority(u) ==
    LET i    == Find(u, "://")
        rest == Tail_(u, i + 3)
        j    == Find(rest, "/")
    IN  IF i = 0 THEN "" ELSE IF j = 0 THEN rest ELSE SubSeq(rest, 1, j - 1)

UrlHost(u) ==
    LET a == UrlAuthority(u)
        b == Find(a, "]")
        c == Find(a, ":")
    IN  IF StartsWith(a, "[") /\ b > 0 THEN SubSeq(a, 1, b)
        ELSE IF c = 0 THEN a ELSE SubSeq(a, 1, c - 1)

UrlPortText(u) ==
    LET a == UrlAuthority(u)
        h == UrlHost(u)
    IN  IF Len(a) > Len(h) + 1 THEN Tail_(a, Len(h) + 2) ELSE ""

DefaultPortText(scheme) ==
    IF scheme = "https" THEN "443" ELSE IF scheme = "http" THEN "80" ELSE ""

\* Url::port(): None for an absent or default port.
UrlPort(u) ==
    LET p == UrlPortText(u)
    IN  IF p = "" \/ p = DefaultPortText(UrlScheme(u)) THEN None ELSE p

\* scheme://authority of a URL, the base that a rooted path is joined to.
UrlOrigin(u) == UrlScheme(u) \o "://" \o UrlAuthority(u)

\* Url::parse(..).to_string(): an empty path is written "/".
UrlNormalize(u) ==
    IF Find(Tail_(u, Find(u, "://") + 3), "/") = 0 THEN u \o "/" ELSE u

\* Url::parse succeeds on what the flow hands it: a scheme and a host.
UrlParses(u) == UrlScheme(u) \in {"http", "https"} /\ UrlHost(u) # ""

\* The loopback hosts of the specification's section 4.1.
LoopbackHosts == {"localhost", "127.0.0.1", "::1", "[::1]"}

(***************************************************************************)
(* discover_endpoints (auth.rs 22-140).                                    *)
(*                                                                         *)
(* The server's answer to the discovery GET is a record                    *)
(*   net      "ok", "send_error" (the request fails) or "body_error" (the  *)
(*            body cannot be read),                                        *)
(*   redirect None, or the URL the client ends on after redirects,         *)
(*   links    the Link header entries in order, each [rel, url],           *)
(*   html     the <link rel=...> elements in order, each [rel, href] with  *)
(*            href = None when the attribute is absent.                    *)
(***************************************************************************)
\* auth.rs 24-35: the test is a prefix test on the text the user typed.
is_localhost(domain) ==
    \/ StartsWith(domain, "localhost")
    \/ StartsWith(domain, "127.0.0.1")
    \/ StartsWith(domain, "::1")
    \/ StartsWith(domain, "[::1]")
    \/ StartsWith(domain, "http://localhost")
    \/ StartsWith(domain, "http://127.0.0.1")
    \/ StartsWith(domain, "http://::1")
    \/ StartsWith(domain, "http://[::1]")
    \/ StartsWith(domain, "https://localhost")
    \/ StartsWith(domain, "https://127.0.0.1")
    \/ StartsWith(domain, "https://::1")
    \/ StartsWith(domain, "https://[::1]")

\* auth.rs 38-56: the URL requested, or None when plain HTTP is refused.
discovery_url(domain) ==
    IF StartsWith(domain, "https://") THEN domain
    ELSE IF StartsWith(domain, "http://")
         THEN IF is_localhost(domain) THEN domain ELSE None
    ELSE IF is_localhost(domain) THEN "http://" \o domain
    ELSE "https://" \o domain

\* auth.rs 143-147: Url::join of an absolute URL, a rooted path or a
\* relative path on a base; None when the result is no URL.
resolve_url(base, href) ==
    IF Find(href, "://") > 0
    THEN IF UrlParses(href) THEN UrlNormalize(href) ELSE None
    ELSE IF StartsWith(href, "/") THEN UrlOrigin(base) \o href
    ELSE UrlOrigin(base) \o "/" \o href

NoEndpoints == [micropub |-> None, auth |-> None, token |-> None, err |-> None]

\* auth.rs 78-107: every entry is resolved, then assigned by its rel; an
\* entry for a relation already set assigns again.
RECURSIVE link_header_pass(_, _, _, _)
link_header_pass(final, links, i, acc) ==
    IF i > Len(links) \/ acc.err # None THEN acc
    ELSE LET e        == links[i]
             resolved == resolve_url(final, e.url)
             next     ==
                 IF resolved = None THEN [acc EXCEPT !.err = "ResolveError"]
                 ELSE IF e.rel = "micropub" THEN [acc EXCEPT !.micropub = resolved]
                 ELSE IF e.rel = "authorization_endpoint" THEN [acc EXCEPT !.auth = resolved]
                 ELSE IF e.rel = "token_endpoint" THEN [acc EXCEPT !.token = resolved]
                 ELSE acc
         IN  link_header_pass(final, links, i + 1, next)

\* Variant: an element with an href assigns its relation even when set.
RECURSIVE html_link_pass_overriding(_, _, _, _)
html_link_pass_overriding(final, html, i, acc) ==
    IF i > Len(html) \/ acc.err # None THEN acc
    ELSE LET e    == html[i]
             r    == IF e.href = None THEN None ELSE resolve_url(final, e.href)
             next ==
                 IF e.href = None THEN acc
                 ELSE IF e.rel \notin {"micropub", "authorization_endpoint", "token_endpoint"}
                 THEN acc
                 ELSE IF r = None THEN [acc EXCEPT !.err = "ResolveError"]
                 ELSE IF e.rel = "micropub" THEN [acc EXCEPT !.micropub = r]
                 ELSE IF e.rel = "authorization_endpoint" THEN [acc EXCEPT !.auth = r]
                 ELSE [acc EXCEPT !.token = r]
         IN  html_link_pass_overriding(final, html, i + 1, next)

\* auth.rs 115-131: an element fills a relation only while it is unset and
\* only when it has an href; only then is the href resolved.
RECURSIVE html_link_pass(_, _, _, _)
html_link_pass(final, html, i, acc) ==
    IF i > Len(html) \/ acc.err # None THEN acc
    ELSE LET e    == html[i]
             r    == IF e.href = None THEN None ELSE resolve_url(final, e.href)
             fill(cur) == e.href # None /\ cur = None
             next ==
                 IF e.rel = "micropub" /\ fill(acc.micropub)
                 THEN IF r = None THEN [acc EXCEPT !.err = "ResolveError"]
                      ELSE [acc EXCEPT !.micropub = r]
                 ELSE IF e.rel = "authorization_endpoint" /\ fill(acc.auth)
                 THEN IF r = None THEN [acc EXCEPT !.err = "ResolveError"]
                      ELSE [acc EXCEPT !.auth = r]
                 ELSE IF e.rel = "token_endpoint" /\ fill(acc.token)
                 THEN IF r = None THEN [acc EXCEPT !.err = "ResolveError"]
                      ELSE [acc EXCEPT !.token = r]
                 ELSE acc
         IN  html_link_pass(final, html, i + 1, next)

DiscoveryFailure(err, url, gets, final) ==
    [ok |-> FALSE, err |-> err, url |-> url, gets |-> gets, final |-> final,
     micropub |-> None, auth |-> None, token |-> None]

\* Before discover_endpoints has run.
NotDiscovered == DiscoveryFailure(None, None, 0, None)

\* auth.rs 66: the downgrade check; the exemption is is_localhost of the
\* typed domain.
downgrade_rejected(domain, final) ==
    UrlScheme(final) # "https" /\ ~is_localhost(domain)

\* Variant: the token endpoint is not required.
discovery_result_without_token_check(url, gets, final, found) ==
    IF found.err # None THEN DiscoveryFailure(found.err, url, gets, final)
    ELSE IF found.micropub = None
    THEN DiscoveryFailure("MissingMicropub", url, gets, final)
    ELSE IF found.auth = None
    THEN DiscoveryFailure("MissingAuthorization", url, gets, final)
    ELSE [ok |-> TRUE, err |-> None, url |-> url, gets |-> gets, final |-> final,
          micropub |-> found.micropub, auth |-> found.auth, token |-> found.token]

\* auth.rs 133-139: the three endpoints, or the first one missing.
discovery_result(url, gets, final, found) ==
    IF found.err # None THEN DiscoveryFailure(found.err, url, gets, final)
    ELSE IF found.micropub = None
    THEN DiscoveryFailure("MissingMicropub", url, gets, final)
    ELSE IF found.auth = None
    THEN DiscoveryFailure("MissingAuthorization", url, gets, final)
    ELSE IF found.token = None
    THEN DiscoveryFailure("MissingToken", url, gets, final)
    ELSE [ok |-> TRUE, err |-> None, url |-> url, gets |-> gets, final |-> final,
          micropub |-> found.micropub, auth |-> found.auth, token |-> found.token]

\* auth.rs 109-131: the body is read after the header pass, then the HTML
\* pass fills what the headers left unset.
discovery_after_headers(resp, url, gets, final, headers) ==
    IF headers.err # None THEN DiscoveryFailure(headers.err, url, gets, final)
    ELSE IF resp.net = "body_error" THEN DiscoveryFailure("Network", url, gets, final)
    ELSE discovery_result(url, gets, final,
                          html_link_pass(final, resp.html, 1, headers))

\* auth.rs 62-107: the final URL is parsed and checked, then the header
\* pass runs.
discovery_at_final(domain, resp, url, gets, final) ==
    IF ~UrlParses(final) THEN DiscoveryFailure("Network", url, gets, final)
    ELSE IF downgrade_rejected(domain, final)
    THEN DiscoveryFailure("InsecureRedirect", url, gets, final)
    ELSE discovery_after_headers(resp, url, gets, final,
                                 link_header_pass(final, resp.links, 1, NoEndpoints))

\* auth.rs 58-62: the GET; gets counts the requests sent (the redirect hop
\* included).
discovery_request(domain, resp, url) ==
    IF url = None THEN DiscoveryFailure("InsecureHttp", None, 0, None)
    ELSE IF ~UrlParses(url) THEN DiscoveryFailure("Network", url, 0, None)
    ELSE IF resp.net = "send_error" THEN DiscoveryFailure("Network", url, 1, None)
    ELSE IF resp.redirect = None
    THEN discovery_at_final(domain, resp, url, 1, UrlNormalize(url))
    ELSE discovery_at_final(domain, resp, url, 2, resp.redirect)

\* auth.rs 22-140 as a whole.
discover_endpoints(domain, resp) ==
    discovery_request(domain, resp, discovery_url(domain))

(***************************************************************************)
(* validate_scope (auth.rs 373-390).                                       *)
(***************************************************************************)
AsciiAlphanumeric ==
    {"a","b","c","d","e","f","g","h","i","j","k","l","m",
     "n","o","p","q","r","s","t","u","v","w","x","y","z",
     "A","B","C","D","E","F","G","H","I","J","K","L","M",
     "N","O","P","Q","R","S","T","U","V","W","X","Y","Z",
     "0","1","2","3","4","5","6","7","8","9"}

\* Variant: char::is_alphanumeric, which also accepts letters outside ASCII.
scope_char_allowed_unicode(c) ==
    c \in AsciiAlphanumeric \/ c = "é" \/ c = " " \/ c = "-" \/ c = "_"

\* auth.rs 381.
scope_char_allowed(c) == c \in AsciiAlphanumeric \/ c = " " \/ c = "-" \/ c = "_"

validate_scope(sc) ==
    IF sc = "" THEN TRUE
    ELSE \A i \in 1..Len(sc) : scope_char_allowed(CharAt(sc, i))

\* auth.rs 424: the scope used when none is given.
DefaultScope == "create update delete media"

(***************************************************************************)
(* find_and_bind_port (auth.rs 266-280): the first candidate that is not   *)
(* held by another process, else the port the OS assigns (0 when the OS    *)
(* assigns none and the bind fails).                                       *)
(***************************************************************************)
candidate_ports == <<8089, 8090, 8091, 8092, 8093>>

\* Variant: the candidates are tried from the last to the first.
RECURSIVE highest_free_candidate(_, _)
highest_free_candidate(occupied, i) ==
    IF i > Len(candidate_ports) THEN 0
    ELSE IF candidate_ports[Len(candidate_ports) + 1 - i] \notin occupied
         THEN candidate_ports[Len(candidate_ports) + 1 - i]
    ELSE highest_free_candidate(occupied, i + 1)

RECURSIVE first_free_candidate(_, _)
first_free_candidate(occupied, i) ==
    IF i > Len(candidate_ports) THEN 0
    ELSE IF candidate_ports[i] \notin occupied THEN candidate_ports[i]
    ELSE first_free_candidate(occupied, i + 1)

find_and_bind_port(occupied, os_port) ==
    LET c == first_free_candidate(occupied, 1)
    IN  IF c # 0 THEN c ELSE os_port

(***************************************************************************)
(* PKCE material (auth.rs 175-201).  The SHA-256 digest is kept symbolic.  *)
(***************************************************************************)
\* Variant: the "plain" method, where the challenge is the verifier.
generate_code_challenge_plain(verifier) == verifier

\* Variant: URL_SAFE in place of URL_SAFE_NO_PAD; the 32-byte digest then
\* ends in one padding character.
generate_code_challenge_padded(verifier) == "S256(" \o verifier \o ")="

\* auth.rs 190-195.
generate_code_challenge(verifier) == "S256(" \o verifier \o ")"

\* format!("{:x}", byte): lower-case hexadecimal with no leading zero.
HexDigits == "0123456789abcdef"

lower_hex(byte) ==
    IF byte < 16 THEN CharAt(HexDigits, byte + 1)
    ELSE CharAt(HexDigits, (byte \div 16) + 1) \o CharAt(HexDigits, (byte % 16) + 1)

\* auth.rs 198-201: the bytes' renderings, concatenated.
RECURSIVE generate_state(_)
generate_state(bytes) ==
    IF bytes = << >> THEN ""
    ELSE lower_hex(Head(bytes)) \o generate_state(Tail(bytes))

(***************************************************************************)
(* handle_callback (auth.rs 212-263), one step of one request handler.     *)
(* A request is [error, code, state], each None when the parameter is      *)
(* absent.  The error branch takes the error lock once; the success        *)
(* branch takes the code lock and then the state lock, so it is two steps  *)
(* (at = "recv", then at = "code_stored").  The result is the cells after  *)
(* the step, the handler's next position and the response status.          *)
(***************************************************************************)
\* Variant: a code is stored even when the state parameter is missing.
handle_callback_accepting_code_alone(req, at, cells) ==
    IF req.error # None
    THEN [cells |-> [cells EXCEPT !.error = req.error], at |-> "responded", status |-> 200]
    ELSE IF req.code # None /\ req.state # None
    THEN IF at = "recv"
         THEN [cells |-> [cells EXCEPT !.code = req.code], at |-> "code_stored", status |-> 0]
         ELSE [cells |-> [cells EXCEPT !.state = req.state], at |-> "responded", status |-> 200]
    ELSE IF req.code # None
    THEN [cells |-> [cells EXCEPT !.code = req.code], at |-> "responded", status |-> 200]
    ELSE [cells |-> cells, at |-> "responded", status |-> 400]

handle_callback(req, at, cells) ==
    IF req.error # None
    THEN [cells |-> [cells EXCEPT !.error = req.error], at |-> "responded", status |-> 200]
    ELSE IF req.code # None /\ req.state # None
    THEN IF at = "recv"
         THEN [cells |-> [cells EXCEPT !.code = req.code], at |-> "code_stored", status |-> 0]
         ELSE [cells |-> [cells EXCEPT !.state = req.state], at |-> "responded", status |-> 200]
    ELSE [cells |-> cells, at |-> "responded", status |-> 400]

\* Variant: the watcher breaks out of its loop at its first poll.
shutdown_signalled_always(cells) == TRUE

\* auth.rs 306-307: the shutdown watcher's test.
shutdown_signalled(cells) == cells.code # None \/ cells.error # None

(***************************************************************************)
(* exchange_code_for_token (auth.rs 344-370): the outcome for a response   *)
(* [net, status, body]; body is "token" (a JSON object whose access_token  *)
(* is a string), "no_token" (JSON without access_token), "token_not_string"*)
(* or "not_json".                                                          *)
(***************************************************************************)
is_success(status) == status >= 200 /\ status <= 299

is_server_error(status) == status >= 500 /\ status <= 599

\* Variant: the body is read whatever the status.
exchange_result_ignoring_status(r) ==
    IF r.net # "ok" THEN [token |-> None, err |-> "ExchangeNetwork"]
    ELSE IF r.body = "not_json" THEN [token |-> None, err |-> "ExchangeParse"]
    ELSE IF r.body # "token" THEN [token |-> None, err |-> "ExchangeNoToken"]
    ELSE [token |-> r.token, err |-> None]

exchange_result(r) ==
    IF r.net # "ok" THEN [token |-> None, err |-> "ExchangeNetwork"]
    ELSE IF ~is_success(r.status) THEN [token |-> None, err |-> "ExchangeStatus"]
    ELSE IF r.body = "not_json" THEN [token |-> None, err |-> "ExchangeParse"]
    ELSE IF r.body # "token" THEN [token |-> None, err |-> "ExchangeNoToken"]
    ELSE [token |-> r.token, err |-> None]

\* Variant: the 4xx arm is tried before the 429 arm.
classify_validation_client_errors_first(status) ==
    IF is_success(status) THEN "Accepted"
    ELSE IF status >= 400 /\ status <= 499 THEN "Rejected"
    ELSE IF is_server_error(status) THEN "AcceptedWithWarning"
    ELSE "Rejected"

(***************************************************************************)
(* The match on the validation probe's status (auth.rs 548-582), arms in   *)
(* the order the code tries them.                                          *)
(***************************************************************************)
classify_validation(status) ==
    IF is_success(status) THEN "Accepted"
    ELSE IF status = 401 \/ status = 403 THEN "Rejected"
    ELSE IF status = 429 THEN "AcceptedWithWarning"
    ELSE IF is_server_error(status) THEN "AcceptedWithWarning"
    ELSE "Rejected"

(***************************************************************************)
(* profile_name (auth.rs 586-597) and me_param (auth.rs 429-444).          *)
(***************************************************************************)
has_scheme(d) == StartsWith(d, "http://") \/ StartsWith(d, "https://")

profile_name_of(d) ==
    IF has_scheme(d)
    THEN IF ~UrlParses(d) THEN None
         ELSE IF UrlPort(d) # None THEN UrlHost(d) \o ":" \o UrlPort(d)
         ELSE UrlHost(d)
    ELSE d

\* Variant: a domain without a scheme is always given https://.
me_param_of_always_https(d) == IF has_scheme(d) THEN d ELSE "https://" \o d

me_param_of(d) ==
    IF has_scheme(d) THEN d
    ELSE IF \/ StartsWith(d, "localhost") \/ StartsWith(d, "127.0.0.1")
            \/ StartsWith(d, "::1") \/ StartsWith(d, "[::1]")
         THEN "http://" \o d
    ELSE "https://" \o d

(***************************************************************************)
(* Inputs and environment answers of the flow.                             *)
(***************************************************************************)
\* The (domain, scope) arguments cmd_auth is run with.
FlowInputs ==
    { [domain |-> "example.com", scope |-> None],
      [domain |-> "example.com", scope |-> "create;drop"],
      [domain |-> "localhost:3000", scope |-> "create update"],
      [domain |-> "http://example.com", scope |-> None] }

HeaderLinks ==
    << [rel |-> "micropub", url |-> "/micropub"],
       [rel |-> "authorization_endpoint", url |-> "https://auth.example/authorize"],
       [rel |-> "token_endpoint", url |-> "https://auth.example/token"] >>

HtmlLinks ==
    << [rel |-> "micropub", href |-> "/html-micropub"],
       [rel |-> "authorization_endpoint", href |-> "/html-auth"],
       [rel |-> "token_endpoint", href |-> "/html-token"] >>

\* Link headers in which a relation occurs twice and one that discovery
\* does not use.
HeaderLinksRepeated ==
    HeaderLinks \o << [rel |-> "micropub", url |-> "/micropub-2"],
                      [rel |-> "webmention", url |-> "/webmention"] >>

\* Link headers with an entry of a relation that discovery does not use and
\* whose target is no URL (Url::join fails on an empty host).
HeaderLinksUnresolvable ==
    HeaderLinks \o << [rel |-> "preload", url |-> "https://"] >>

\* <link> elements without an href and with a relation occurring twice.
HtmlLinksRepeated ==
    << [rel |-> "micropub", href |-> None],
       [rel |-> "micropub", href |-> "/html-micropub"],
       [rel |-> "micropub", href |-> "/html-micropub-2"],
       [rel |-> "authorization_endpoint", href |-> "/html-auth"],
       [rel |-> "token_endpoint", href |-> "/html-token"],
       [rel |-> "token_endpoint", href |-> "/html-token-2"] >>

\* Before the discovery GET has been answered.
NoResponse == [net |-> "none", redirect |-> None, links |-> << >>, html |-> << >>]

\* The answers to the discovery GET of a flow.
FlowResponses ==
    { [net |-> "ok", redirect |-> None, links |-> HeaderLinks, html |-> HtmlLinks],
      [net |-> "ok", redirect |-> None, links |-> SubSeq(HeaderLinks, 1, 2), html |-> << >>],
      [net |-> "ok", redirect |-> None, links |-> SubSeq(HeaderLinks, 2, 3), html |-> << >>],
      [net |-> "ok", redirect |-> None, links |-> << >>,
       html |-> << HtmlLinks[1], HtmlLinks[3] >>],
      [net |-> "send_error", redirect |-> None, links |-> << >>, html |-> << >>] }

\* Ports held by other processes when the flow binds, and the port the OS
\* would assign (0: it assigns none).
OccupiedChoices == { {}, {8089, 8090, 8091, 8092, 8093} }

OsPorts == {0, 49152}

\* What one flow draws for its verifier and its state.
PkceDraws ==
    { [verifier |-> "v1", state |-> "s1"], [verifier |-> "v2", state |-> "s2"] }

Verifiers == { d.verifier : d \in PkceDraws }

CsrfStates == { d.state : d \in PkceDraws }

\* The callback requests that may reach the listener: with a code and a
\* state, with an error (alone, or beside a code and a state), and with
\* neither an error nor both of code and state; and one to another path
\* than /callback.
CallbackRequests ==
    { [path |-> "/callback", error |-> None, code |-> "c1", state |-> "s1"],
      [path |-> "/callback", error |-> None, code |-> "c2", state |-> "s2"],
      [path |-> "/callback", error |-> "access_denied", code |-> None, state |-> None],
      [path |-> "/callback", error |-> "access_denied", code |-> "c1", state |-> "s1"],
      [path |-> "/callback", error |-> None, code |-> None, state |-> None],
      [path |-> "/callback", error |-> None, code |-> "c1", state |-> None],
      [path |-> "/", error |-> "access_denied", code |-> None, state |-> None] }

ExchangeResponses ==
    { [net |-> "ok", status |-> 299, body |-> "token", token |-> "tok1"],
      [net |-> "ok", status |-> 200, body |-> "no_token", token |-> None],
      [net |-> "ok", status |-> 200, body |-> "token_not_string", token |-> None],
      [net |-> "ok", status |-> 200, body |-> "not_json", token |-> None],
      [net |-> "ok", status |-> 199, body |-> "token", token |-> "tok1"],
      [net |-> "ok", status |-> 300, body |-> "token", token |-> "tok1"],
      [net |-> "ok", status |-> 400, body |-> "token", token |-> "tok1"],
      [net |-> "error", status |-> 0, body |-> "not_json", token |-> None] }

\* The statuses the validation probe may answer with: the first and last
\* status of every class and the statuses the match names, with their
\* neighbours.
ValidationStatuses ==
    {100, 199, 200, 201, 204, 299, 300, 304, 399, 400, 401, 402, 403, 404,
     428, 429, 430, 499, 500, 502, 503, 599}

\* The probe's answers: a status, the 10 s bound elapsing, or no connection.
ValidationAnswers ==
    [net : {"ok"}, status : ValidationStatuses]
    \cup { [net |-> "timeout", status |-> 0], [net |-> "unreachable", status |-> 0] }

MediaAnswers == {"https://media.example/upload", None, "Error"}

default_client_id == "https://github.com/harperreed/micropub"

\* The configuration and the token files on disk before the flow.
InitialDisk ==
    [ default_profile |-> "example.com",
      profiles |-> { [name |-> "example.com", domain |-> "example.com",
                      micropub |-> "https://old.example/micropub", media |-> None] },
      tokens   |-> { [name |-> "example.com", token |-> "oldtoken"] } ]

(***************************************************************************)
(* State.                                                                  *)
(***************************************************************************)
VARIABLES
    domain,      \* cmd_auth's domain argument
    scope,       \* cmd_auth's scope argument (None: not given)
    pc,          \* the statement the running command is at
    failReason,  \* why the command returned Err (None while it has not)
    disk,        \* config.toml and the token files
    config,      \* the Config loaded at the start of cmd_auth
    discovery,   \* the result of discover_endpoints
    http,        \* the outbound HTTP requests sent, in order
    listener,    \* the bound TcpListener: [port, owner]
    pkce,        \* code_verifier, code_challenge and state
    auth_url,    \* the authorization URL's query
    browser,     \* "no", "opened", or "manual" (open::that failed)
    cells,       \* the OAuthCallback cells: [code, state, error]
    server,      \* start_callback_server: [status, clock, poll_due]
    inflight,    \* request handlers running: [req, at]
    arrived,     \* callback requests accepted so far
    local,       \* cmd_auth's locals after the wait (probe: how the
                 \* validation request ended)
    occupied,    \* the candidate ports held by other processes
    response,    \* discover_endpoints' response to the GET
    replies,     \* the responses the request handlers returned: [req, status]
    rng,         \* the bytes the thread RNG hands to generate_state (empty
                 \* where the state string is an opaque token)
    draft,       \* the draft file in the drafts directory
    push,        \* the arguments and locals of cmd_push_draft or cmd_publish
    archive,     \* the draft file in the archive directory
    history,     \* the draft commands run so far: [command, result]
    app,         \* the TUI's App: tabs, lists, selections, pending action
    drafts_dir   \* the drafts directory the TUI lists: id -> file state

vars == << domain, scope, pc, failReason, disk, config, discovery, http, listener,
           pkce, auth_url, browser, cells, server, inflight, arrived, local,
           occupied, response, replies, rng, draft, push, archive, history, app, drafts_dir >>

\* Before Config::load has returned.
NoConfig == [default_profile |-> None, profiles |-> {}]

\* Before the PKCE material and the state have been generated.
NoPkce == [code_verifier |-> None, code_challenge |-> None, state |-> None]

\* Before the authorization URL has been built.
NoAuthUrl ==
    [endpoint |-> None, response_type |-> None, client_id |-> None,
     redirect_uri |-> None, state |-> None, code_challenge |-> None,
     code_challenge_method |-> None, scope |-> None, me |-> None]

\* Before the token endpoint has answered.
NoExchange == [net |-> "none", status |-> 0, body |-> "none", token |-> None]

NoLocal ==
    [code |-> None, received_state |-> None, exchange |-> NoExchange, token |-> None,
     probe |-> None,
     status |-> 0, outcome |-> None, profile_name |-> None, media |-> None]

\* A JSON object without members.
EmptyMap == [k \in {} |-> << >>]

\* No draft file.
NoDraft ==
    [exists |-> FALSE, profile |-> None, status |-> None, url |-> None,
     name |-> None, category |-> << >>, photo |-> << >>, syndicate_to |-> << >>,
     published |-> None, content |-> << >>]

\* Draft ids are UUIDs (draft.rs generate_draft_id), so an id is never used twice.
DraftIds == { "d" \o ToString(i) : i \in 1..MaxDrafts }

\* The TUI is not running: no draft file has been seen.
NoDraftsDir == [id \in DraftIds |-> "unused"]

\* ConfirmationAction::None.
NoAction == [kind |-> "None", id |-> None]

\* The App before App::new has loaded anything.
NoApp ==
    [current_tab |-> "Drafts", drafts |-> << >>, posts |-> << >>, media |-> << >>,
     selected_draft |-> 0, selected_post |-> 0, selected_media |-> 0,
     confirmation_action |-> NoAction, quit_requested |-> FALSE, date_input |-> ""]

\* Before cmd_push_draft has built its request.
NoRequest == [action |-> "none", properties |-> EmptyMap, replace |-> EmptyMap, url |-> None]

\* Neither cmd_push_draft nor cmd_publish is running.
NoPush ==
    [draft_id |-> None, backdate |-> None, profile_name |-> None, token |-> None,
     media_endpoint |-> None, micropub_endpoint |-> None, pending |-> {},
     queue |-> << >>, photo_urls |-> << >>,
     replacements |-> {}, request |-> NoRequest, server_url |-> None]

Init ==
    /\ \E input \in FlowInputs : domain = input.domain /\ scope = input.scope
    /\ pc = "LoadConfig"
    /\ failReason = None
    /\ disk = InitialDisk
    /\ config = NoConfig
    /\ discovery = NotDiscovered
    /\ http = << >>
    /\ listener = [port |-> 0, owner |-> "none"]
    /\ pkce = NoPkce
    /\ auth_url = NoAuthUrl
    /\ browser = "no"
    /\ cells = [code |-> None, state |-> None, error |-> None]
    /\ server = [status |-> "not_started", clock |-> 0, poll_due |-> FALSE]
    /\ inflight = {}
    /\ arrived = 0
    /\ local = NoLocal
    /\ occupied \in OccupiedChoices
    /\ response = NoResponse
    /\ replies = {}
    /\ rng = << >>
    /\ draft = NoDraft
    /\ drafts_dir = NoDraftsDir
    /\ app = NoApp
    /\ history = << >>
    /\ archive = NoDraft
    /\ push = NoPush

(***************************************************************************)
(* cmd_auth (auth.rs 393-655), statement by statement.                     *)
(***************************************************************************)
\* The TcpListener is a local of cmd_auth until it is moved into the server
\* task: returning drops it while cmd_auth still owns it.
listener_on_return(l) ==
    IF l.owner = "orchestrator" THEN [l EXCEPT !.owner = "closed"] ELSE l

\* Variant: the error is swallowed and cmd_auth returns Ok.
Fail_swallowed(reason) ==
    /\ pc' = "Done"
    /\ failReason' = reason
    /\ listener' = listener_on_return(listener)

\* `?` and bail!: cmd_auth returns Err.
Fail(reason) ==
    /\ pc' = "Failed"
    /\ failReason' = reason
    /\ listener' = listener_on_return(listener)

\* auth.rs 395.
LoadConfig ==
    /\ pc = "LoadConfig"
    /\ \E ok \in BOOLEAN :
         IF ok
         THEN /\ config' = [default_profile |-> disk.default_profile,
                            profiles |-> disk.profiles]
              /\ pc' = "Discover"
              /\ UNCHANGED << failReason, listener >>
         ELSE /\ Fail("ConfigLoad")
              /\ UNCHANGED config
    /\ UNCHANGED << domain, scope, drafts_dir, app, history, archive, rng, draft, push, occupied, response, replies, disk, discovery, http, pkce, auth_url, browser,
                    cells, server, inflight, arrived, local >>

DiscoveryGets(d) ==
    IF d.gets = 0 THEN << >>
    ELSE IF d.gets = 1 THEN << [kind |-> "discovery", url |-> d.url] >>
    ELSE << [kind |-> "discovery", url |-> d.url], [kind |-> "discovery", url |-> d.final] >>

\* auth.rs 399.
Discover(responses) ==
    /\ pc = "Discover"
    /\ \E resp \in responses :
         /\ discovery' = discover_endpoints(domain, resp)
         /\ response' = IF discovery'.gets = 0 THEN NoResponse ELSE resp
    /\ http' = http \o DiscoveryGets(discovery')
    /\ IF discovery'.ok
       THEN pc' = "BindPort" /\ UNCHANGED << failReason, listener >>
       ELSE Fail(discovery'.err)
    /\ UNCHANGED << domain, scope, drafts_dir, app, history, archive, rng, draft, push, occupied, replies, disk, config, pkce, auth_url, browser,
                    cells, server, inflight, arrived, local >>

\* Variant: only the port number is kept and the socket is dropped.
bound_listener_dropped(port) == [port |-> port, owner |-> "closed"]

\* auth.rs 406: the TcpListener that find_and_bind_port returns is held in
\* a local of cmd_auth.
bound_listener(port) == [port |-> port, owner |-> "orchestrator"]

\* auth.rs 406-408.
BindPort ==
    /\ pc = "BindPort"
    /\ \E os_port \in OsPorts :
         LET port == find_and_bind_port(occupied, os_port)
         IN  IF port = 0
             THEN Fail("BindFailed")
             ELSE /\ listener' = bound_listener(port)
                  /\ pc' = "GeneratePkce"
                  /\ UNCHANGED failReason
    /\ UNCHANGED << domain, scope, drafts_dir, app, history, archive, rng, draft, push, occupied, response, replies, disk, config, discovery, http, pkce, auth_url,
                    browser, cells, server, inflight, arrived, local >>

\* auth.rs 411-413.
GeneratePkce(draws) ==
    /\ pc = "GeneratePkce"
    /\ \E d \in draws :
         pkce' = [code_verifier |-> d.verifier,
                  code_challenge |-> generate_code_challenge(d.verifier),
                  state |-> d.state]
    /\ pc' = "ValidateScope"
    /\ UNCHANGED << domain, scope, drafts_dir, app, history, archive, rng, draft, push, occupied, response, replies, failReason, disk, config, discovery, http, listener,
                    auth_url, browser, cells, server, inflight, arrived, local >>

requested_scope == IF scope = None THEN DefaultScope ELSE scope

\* auth.rs 424-425.
ValidateScope ==
    /\ pc = "ValidateScope"
    /\ IF validate_scope(requested_scope)
       THEN pc' = "BuildAuthUrl" /\ UNCHANGED << failReason, listener >>
       ELSE Fail("InvalidScope")
    /\ UNCHANGED << domain, scope, drafts_dir, app, history, archive, rng, draft, push, occupied, response, replies, disk, config, discovery, http, pkce, auth_url,
                    browser, cells, server, inflight, arrived, local >>

redirect_uri == "http://127.0.0.1:" \o ToString(listener.port) \o "/callback"

\* auth.rs 416-456.
BuildAuthUrl ==
    /\ pc = "BuildAuthUrl"
    /\ IF UrlParses(discovery.auth)
       THEN /\ auth_url' =
                 [endpoint |-> discovery.auth, response_type |-> "code",
                  client_id |-> default_client_id, redirect_uri |-> redirect_uri,
                  state |-> pkce.state, code_challenge |-> pkce.code_challenge,
                  code_challenge_method |-> "S256", scope |-> requested_scope,
                  me |-> me_param_of(domain)]
            /\ pc' = "SpawnServer"
            /\ UNCHANGED << failReason, listener >>
       ELSE Fail("BadAuthorizationUrl") /\ UNCHANGED auth_url
    /\ UNCHANGED << domain, scope, drafts_dir, app, history, archive, rng, draft, push, occupied, response, replies, disk, config, discovery, http, pkce,
                    browser, cells, server, inflight, arrived, local >>

\* auth.rs 463-472: the cells are created and the listener moves into the
\* spawned task.
SpawnServer ==
    /\ pc = "SpawnServer"
    /\ cells' = [code |-> None, state |-> None, error |-> None]
    /\ server' = [status |-> "serving", clock |-> 0, poll_due |-> FALSE]
    /\ listener' = [listener EXCEPT !.owner = "server"]
    /\ pc' = "OpenBrowser"
    /\ UNCHANGED << domain, scope, drafts_dir, app, history, archive, rng, draft, push, occupied, response, replies, failReason, disk, config, discovery, http, pkce,
                    auth_url, browser, inflight, arrived, local >>

\* auth.rs 475-479: a failure to open the browser is not fatal.
OpenBrowser ==
    /\ pc = "OpenBrowser"
    /\ \E ok \in BOOLEAN : browser' = IF ok THEN "opened" ELSE "manual"
    /\ pc' = "AwaitServer"
    /\ UNCHANGED << domain, scope, drafts_dir, app, history, archive, rng, draft, push, occupied, response, replies, failReason, disk, config, discovery, http, listener,
                    pkce, auth_url, cells, server, inflight, arrived, local >>

\* Variant: the Err of the joined task is not inspected.
await_outcome_ignoring_timeout(status) == "CheckError"

\* auth.rs 484-494: what the join of the server task yields.
await_outcome(status) == IF status = "finished" THEN "CheckError" ELSE "Timeout"

\* Variant: the handle is not awaited; the flow goes on as soon as the
\* task has been spawned.
join_ready_once_spawned(status) == status # "not_started"

\* auth.rs 484: server_handle.await resolves when the task has returned.
join_ready(status) == status \in {"finished", "timed_out"}

AwaitServer ==
    /\ pc = "AwaitServer"
    /\ join_ready(server.status)
    /\ IF await_outcome(server.status) = "Timeout"
       THEN Fail("Timeout")
       ELSE pc' = await_outcome(server.status) /\ UNCHANGED << failReason, listener >>
    /\ UNCHANGED << domain, scope, drafts_dir, app, history, archive, rng, draft, push, occupied, response, replies, disk, config, discovery, http, pkce, auth_url,
                    browser, cells, server, inflight, arrived, local >>

\* Variant: a stored code takes precedence over a stored error.
authorization_error_unless_code(c) == IF c.code # None THEN None ELSE c.error

\* auth.rs 497-499.
authorization_error(c) == c.error

CheckError ==
    /\ pc = "CheckError"
    /\ IF authorization_error(cells) # None
       THEN Fail("AuthorizationDenied")
       ELSE pc' = "ExtractCode" /\ UNCHANGED << failReason, listener >>
    /\ UNCHANGED << domain, scope, drafts_dir, app, history, archive, rng, draft, push, occupied, response, replies, disk, config, discovery, http, pkce, auth_url,
                    browser, cells, server, inflight, arrived, local >>

\* auth.rs 502-513.
ExtractCode ==
    /\ pc = "ExtractCode"
    /\ IF cells.code = None
       THEN Fail("NoCode") /\ UNCHANGED local
       ELSE IF cells.state = None
       THEN Fail("NoState") /\ UNCHANGED local
       ELSE /\ local' = [local EXCEPT !.code = cells.code,
                                      !.received_state = cells.state]
            /\ pc' = "VerifyState"
            /\ UNCHANGED << failReason, listener >>
    /\ UNCHANGED << domain, scope, drafts_dir, app, history, archive, rng, draft, push, occupied, response, replies, disk, config, discovery, http, pkce, auth_url,
                    browser, cells, server, inflight, arrived >>

\* Variant: the received state is not compared.
state_matches_unchecked(received_state, state) == TRUE

\* auth.rs 516.
state_matches(received_state, state) == received_state = state

VerifyState ==
    /\ pc = "VerifyState"
    /\ IF state_matches(local.received_state, pkce.state)
       THEN pc' = "Exchange" /\ UNCHANGED << failReason, listener >>
       ELSE Fail("CsrfMismatch")
    /\ UNCHANGED << domain, scope, drafts_dir, app, history, archive, rng, draft, push, occupied, response, replies, disk, config, discovery, http, pkce, auth_url,
                    browser, cells, server, inflight, arrived, local >>

\* Variant: a failed exchange is attempted again.
after_exchange_retrying(x) == IF x.err # None THEN "Exchange" ELSE "ValidateToken"

\* auth.rs 524-531: the `?` on the exchange returns its error from cmd_auth.
after_exchange(x) == IF x.err # None THEN "Failed" ELSE "ValidateToken"

\* auth.rs 524-531 with exchange_code_for_token (327-370).
Exchange ==
    /\ pc = "Exchange"
    /\ http' = Append(http,
                 [kind |-> "exchange", url |-> discovery.token, code |-> local.code,
                  code_verifier |-> pkce.code_verifier,
                  redirect_uri |-> auth_url.redirect_uri,
                  client_id |-> default_client_id])
    /\ \E r \in ExchangeResponses :
         LET x == exchange_result(r)
         IN  /\ local' = [local EXCEPT !.token = x.token, !.exchange = r]
             /\ IF after_exchange(x) = "Failed"
                THEN Fail(x.err)
                ELSE /\ pc' = after_exchange(x)
                     /\ UNCHANGED << failReason, listener >>
    /\ UNCHANGED << domain, scope, drafts_dir, app, history, archive, rng, draft, push, occupied, response, replies, disk, config, discovery, pkce, auth_url,
                    browser, cells, server, inflight, arrived >>

\* Variant: a probe that timed out or was not sent is not an error.
probe_failure_ignored(answer) == None

\* auth.rs 538-546: the probe bounded by 10 seconds.
probe_failure(answer) ==
    IF answer.net = "timeout" THEN "ValidationTimeout"
    ELSE IF answer.net = "unreachable" THEN "ValidationNetwork"
    ELSE None

\* Variant: the rejecting arms do not bail.
validation_passes_always(outcome) == TRUE

\* auth.rs 548-582: whether the match falls through to the saving code.
validation_passes(outcome) == outcome \in {"Accepted", "AcceptedWithWarning"}

\* auth.rs 537-582.
ValidateToken ==
    /\ pc = "ValidateToken"
    /\ http' = Append(http,
                 [kind |-> "validation", url |-> discovery.micropub \o "?q=config",
                  bearer |-> local.token])
    /\ \E answer \in ValidationAnswers :
         IF probe_failure(answer) # None
         THEN /\ Fail(probe_failure(answer))
              /\ local' = [local EXCEPT !.probe = answer.net]
         ELSE LET outcome == classify_validation(answer.status)
              IN  /\ local' = [local EXCEPT !.probe = answer.net,
                                             !.status = answer.status,
                                             !.outcome = outcome]
                  /\ IF validation_passes(outcome)
                     THEN pc' = "SaveToken" /\ UNCHANGED << failReason, listener >>
                     ELSE Fail("TokenRejected")
    /\ UNCHANGED << domain, scope, drafts_dir, app, history, archive, rng, draft, push, occupied, response, replies, disk, config, discovery, pkce, auth_url,
                    browser, cells, server, inflight, arrived >>

write_token(tokens, name, token) ==
    { t \in tokens : t.name # name } \cup { [name |-> name, token |-> token] }

\* auth.rs 586-611: the profile name, the token file and its permissions.
SaveToken ==
    /\ pc = "SaveToken"
    /\ LET name == profile_name_of(domain)
       IN  IF name = None
           THEN Fail("ProfileName") /\ UNCHANGED << disk, local >>
           ELSE \E fs \in {"ok", "write_failed", "permissions_failed"} :
                  /\ local' = [local EXCEPT !.profile_name = name]
                  /\ disk' = IF fs = "write_failed" THEN disk
                             ELSE [disk EXCEPT
                                     !.tokens = write_token(@, name, local.token)]
                  /\ IF fs = "ok"
                     THEN pc' = "DiscoverMedia" /\ UNCHANGED << failReason, listener >>
                     ELSE Fail("TokenFile")
    /\ UNCHANGED << domain, scope, drafts_dir, app, history, archive, rng, draft, push, occupied, response, replies, config, discovery, http, pkce, auth_url,
                    browser, cells, server, inflight, arrived >>

\* auth.rs 617-630 with discover_media_endpoint (150-172): never fatal.
DiscoverMedia ==
    /\ pc = "DiscoverMedia"
    /\ http' = Append(http,
                 [kind |-> "media", url |-> discovery.micropub \o "?q=config",
                  bearer |-> local.token])
    /\ \E m \in MediaAnswers :
         local' = [local EXCEPT !.media = IF m = "Error" THEN None ELSE m]
    /\ pc' = "SaveProfile"
    /\ UNCHANGED << domain, scope, drafts_dir, app, history, archive, rng, draft, push, occupied, response, replies, failReason, disk, config, discovery, listener, pkce,
                    auth_url, browser, cells, server, inflight, arrived >>

upsert_profile(profiles, profile) ==
    { q \in profiles : q.name # profile.name } \cup { profile }

\* auth.rs 633-654.
SaveProfile ==
    /\ pc = "SaveProfile"
    /\ config' =
         [default_profile |-> local.profile_name,
          profiles |-> upsert_profile(config.profiles,
                         [name |-> local.profile_name, domain |-> domain,
                          micropub |-> discovery.micropub, media |-> local.media])]
    /\ \E ok \in BOOLEAN :
         IF ok
         THEN /\ disk' = [disk EXCEPT !.default_profile = config'.default_profile,
                                      !.profiles = config'.profiles]
              /\ pc' = "Done"
              /\ UNCHANGED << failReason, listener >>
         ELSE Fail("ConfigSave") /\ UNCHANGED disk
    /\ UNCHANGED << domain, scope, drafts_dir, app, history, archive, rng, draft, push, occupied, response, replies, discovery, http, pkce, auth_url,
                    browser, cells, server, inflight, arrived, local >>

(***************************************************************************)
(* start_callback_server (auth.rs 283-324): the hyper server, its request  *)
(* handlers, the shutdown watcher polling every 100 ms and the 300 s       *)
(* timer of the select!.                                                   *)
(***************************************************************************)
\* 100 ms pass: the watcher's sleep ends and its test is due.
Tick ==
    /\ server.status \in {"serving", "draining"}
    /\ server.clock < DeadlineTicks
    /\ ~server.poll_due
    /\ server' = [server EXCEPT !.clock = @ + 1,
                                !.poll_due = (server.status = "serving")]
    /\ UNCHANGED << domain, scope, drafts_dir, app, history, archive, rng, draft, push, occupied, response, replies, pc, failReason, disk, config, discovery, http,
                    listener, pkce, auth_url, browser, cells, inflight, arrived, local >>

\* auth.rs 304-311: the watcher tests the cells; when a result is there the
\* graceful shutdown starts and no further connection is accepted.
WatcherPoll ==
    /\ server.status = "serving"
    /\ server.poll_due
    /\ server' = [server EXCEPT !.poll_due = FALSE,
                                !.status = IF shutdown_signalled(cells)
                                           THEN "draining" ELSE "serving"]
    /\ UNCHANGED << domain, scope, drafts_dir, app, history, archive, rng, draft, push, occupied, response, replies, pc, failReason, disk, config, discovery, http,
                    listener, pkce, auth_url, browser, cells, inflight, arrived, local >>

\* A callback request is accepted and its handler starts (auth.rs 290-297).
Arrive ==
    /\ server.status = "serving"
    /\ arrived < MaxRequests
    /\ \E req \in CallbackRequests :
         inflight' = inflight \cup { [req |-> req, at |-> "recv"] }
    /\ arrived' = arrived + 1
    /\ UNCHANGED << domain, scope, drafts_dir, app, history, archive, rng, draft, push, occupied, response, replies, pc, failReason, disk, config, discovery, http,
                    listener, pkce, auth_url, browser, cells, server, local >>

\* One step of a running handler (handle_callback).
HandlerStep ==
    /\ server.status \in {"serving", "draining"}
    /\ \E h \in inflight :
         LET r == handle_callback(h.req, h.at, cells)
         IN  /\ cells' = r.cells
             /\ inflight' = IF r.at = "responded"
                            THEN inflight \ {h}
                            ELSE (inflight \ {h}) \cup { [h EXCEPT !.at = r.at] }
             /\ replies' = IF r.at = "responded"
                           THEN replies \cup { [req |-> h.req, status |-> r.status] }
                           ELSE replies
    /\ UNCHANGED << domain, scope, drafts_dir, app, history, archive, rng, draft, push, occupied, response, pc, failReason, disk, config, discovery, http,
                    listener, pkce, auth_url, browser, server, arrived, local >>

\* Variant: the listening socket survives the server task.
listener_kept_open(l) == l

\* Dropping the server closes the listening socket.
listener_closed(l) == [l EXCEPT !.owner = "closed"]

\* auth.rs 315-317, 323: the graceful shutdown completes once every
\* connection has been served; the task returns Ok.
ServerFinish ==
    /\ server.status = "draining"
    /\ inflight = {}
    /\ server' = [server EXCEPT !.status = "finished"]
    /\ listener' = listener_closed(listener)
    /\ UNCHANGED << domain, scope, drafts_dir, app, history, archive, rng, draft, push, occupied, response, replies, pc, failReason, disk, config, discovery, http,
                    pkce, auth_url, browser, cells, inflight, arrived, local >>

\* auth.rs 318-320: the 300 s sleep wins the select!; the server future is
\* dropped with its connections and the task returns Err.
DeadlineElapsed ==
    /\ server.status \in {"serving", "draining"}
    /\ server.clock = DeadlineTicks
    /\ server' = [server EXCEPT !.status = "timed_out", !.poll_due = FALSE]
    /\ inflight' = {}
    /\ listener' = listener_closed(listener)
    /\ UNCHANGED << domain, scope, drafts_dir, app, history, archive, rng, draft, push, occupied, response, replies, pc, failReason, disk, config, discovery, http,
                    pkce, auth_url, browser, cells, arrived, local >>

Orchestrator ==
    \/ LoadConfig \/ Discover(FlowResponses) \/ BindPort \/ GeneratePkce(PkceDraws)
    \/ ValidateScope \/ BuildAuthUrl \/ SpawnServer \/ OpenBrowser \/ AwaitServer
    \/ CheckError \/ ExtractCode \/ VerifyState \/ Exchange \/ ValidateToken
    \/ SaveToken \/ DiscoverMedia \/ SaveProfile

CallbackServer ==
    \/ Tick \/ WatcherPoll \/ Arrive \/ HandlerStep \/ ServerFinish \/ DeadlineElapsed

Next == Orchestrator \/ CallbackServer

Spec == Init /\ [][Next]_vars

\* The runtime polls ready tasks and its timers fire.
FairSpec ==
    /\ Spec
    /\ WF_vars(Orchestrator)
    /\ WF_vars(Tick) /\ WF_vars(WatcherPoll) /\ WF_vars(HandlerStep)
    /\ WF_vars(ServerFinish) /\ WF_vars(DeadlineElapsed)

(***************************************************************************)
(* Discovery on its own: discover_endpoints applied to a wider set of      *)
(* domains and answers.                                                    *)
(***************************************************************************)
DiscoveryDomains ==
    {"example.com", "example.com:8443", "localhost", "localhost:3000",
     "127.0.0.1:8080", "[::1]:3000", "localhost.evil.example",
     "http://example.com", "http://localhost:3000", "https://example.com",
     "https://localhost.evil.example", "notlocalhost.example",
     "http://localhost.evil.example"}

DiscoveryResponses ==
    [net : {"ok"},
     redirect : {None, "https://final.example/", "http://elsewhere.example/",
                 "http://localhost:4000/"},
     links : {HeaderLinks, SubSeq(HeaderLinks, 1, 2), << >>, HeaderLinksRepeated,
              HeaderLinksUnresolvable},
     html : {HtmlLinks, << >>, HtmlLinksRepeated}]
    \cup { [net |-> "send_error", redirect |-> None, links |-> << >>, html |-> << >>],
           [net |-> "body_error", redirect |-> None, links |-> HeaderLinks, html |-> << >>] }

DiscoveryInit ==
    /\ domain \in DiscoveryDomains
    /\ scope = None
    /\ pc = "LoadConfig"
    /\ failReason = None
    /\ disk = InitialDisk
    /\ config = NoConfig
    /\ discovery = NotDiscovered
    /\ http = << >>
    /\ listener = [port |-> 0, owner |-> "none"]
    /\ pkce = NoPkce
    /\ auth_url = NoAuthUrl
    /\ browser = "no"
    /\ cells = [code |-> None, state |-> None, error |-> None]
    /\ server = [status |-> "not_started", clock |-> 0, poll_due |-> FALSE]
    /\ inflight = {}
    /\ arrived = 0
    /\ local = NoLocal
    /\ occupied \in OccupiedChoices
    /\ response = NoResponse
    /\ replies = {}
    /\ rng = << >>
    /\ draft = NoDraft
    /\ drafts_dir = NoDraftsDir
    /\ app = NoApp
    /\ history = << >>
    /\ archive = NoDraft
    /\ push = NoPush

DiscoveryNext == LoadConfig \/ Discover(DiscoveryResponses)

DiscoverySpec == DiscoveryInit /\ [][DiscoveryNext]_vars

(***************************************************************************)
(* The bind on its own: find_and_bind_port under every occupancy of the    *)
(* candidate ports.                                                        *)
(***************************************************************************)
CandidatePortSet == { candidate_ports[i] : i \in 1..Len(candidate_ports) }

PortInit ==
    /\ \E input \in FlowInputs : domain = input.domain /\ scope = input.scope
    /\ pc = "LoadConfig"
    /\ failReason = None
    /\ disk = InitialDisk
    /\ config = NoConfig
    /\ discovery = NotDiscovered
    /\ http = << >>
    /\ listener = [port |-> 0, owner |-> "none"]
    /\ pkce = NoPkce
    /\ auth_url = NoAuthUrl
    /\ browser = "no"
    /\ cells = [code |-> None, state |-> None, error |-> None]
    /\ server = [status |-> "not_started", clock |-> 0, poll_due |-> FALSE]
    /\ inflight = {}
    /\ arrived = 0
    /\ local = NoLocal
    /\ occupied \in SUBSET CandidatePortSet
    /\ response = NoResponse
    /\ replies = {}
    /\ rng = << >>
    /\ draft = NoDraft
    /\ drafts_dir = NoDraftsDir
    /\ app = NoApp
    /\ history = << >>
    /\ archive = NoDraft
    /\ push = NoPush

PortNext == LoadConfig \/ Discover(FlowResponses) \/ BindPort

PortSpec == PortInit /\ [][PortNext]_vars

(***************************************************************************)
(* cmd_push_draft (draft_push.rs 46-301) with MicropubRequest::to_json     *)
(* (client.rs 30-88).                                                      *)
(*                                                                         *)
(* The draft's content is a sequence of pieces [kind, s]: text, or an      *)
(* image reference whose path or URL is s.  A JSON object is a function    *)
(* from its keys; every property value is an array of strings.             *)
(***************************************************************************)
\* draft_push.rs 22-42.
validate_draft_id(id) ==
    /\ Find(id, "..") = 0
    /\ Find(id, "/") = 0
    /\ Find(id, "\\") = 0
    /\ \A i \in 1..Len(id) :
         CharAt(id, i) \in AsciiAlphanumeric \/ CharAt(id, i) = "-" \/ CharAt(id, i) = "_"

\* media.rs 40-42.
is_local_path(path) == ~StartsWith(path, "http://") /\ ~StartsWith(path, "https://")

\* media.rs 11-37.
find_media_references(content) ==
    { content[i].s : i \in { j \in 1..Len(content) :
                               content[j].kind = "img" /\ is_local_path(content[j].s) } }

\* draft_push.rs 72-87: the references of the content and the local photos,
\* without duplicates.
media_refs(d) ==
    find_media_references(d.content)
    \cup { d.photo[i] : i \in { j \in 1..Len(d.photo) : is_local_path(d.photo[j]) } }

\* The URL of replacements for a local path (None: there is none).
replacement_of(replacements, path) ==
    IF \E r \in replacements : r.local = path
    THEN (CHOOSE r \in replacements : r.local = path).url
    ELSE None

\* media.rs 114-122 and the content as one string.
replace_paths(content, replacements) ==
    [i \in 1..Len(content) |->
        IF content[i].kind = "img" /\ replacement_of(replacements, content[i].s) # None
        THEN [kind |-> "img", s |-> replacement_of(replacements, content[i].s)]
        ELSE content[i]]

RECURSIVE content_text(_)
content_text(content) ==
    IF Len(content) = 0 THEN ""
    ELSE (IF Head(content).kind = "img" THEN "![](" \o Head(content).s \o ")"
          ELSE Head(content).s) \o content_text(Tail(content))

\* draft_push.rs 159-171: a local photo with no uploaded URL ends the push.
photo_missing(photo, replacements) ==
    \E i \in 1..Len(photo) :
        is_local_path(photo[i]) /\ replacement_of(replacements, photo[i]) = None

photo_values(photo, replacements) ==
    [i \in 1..Len(photo) |->
        IF is_local_path(photo[i]) THEN replacement_of(replacements, photo[i])
        ELSE photo[i]]

\* draft_push.rs 191.
published_date(d, backdate) == IF backdate # None THEN backdate ELSE d.published

\* draft_push.rs 128-203: later inserts are to the left.
push_properties(d, replacements, backdate) ==
    ("post-status" :> << "draft" >>)
    @@ (IF published_date(d, backdate) # None
        THEN ("published" :> << published_date(d, backdate) >>) ELSE EmptyMap)
    @@ (IF d.syndicate_to # << >> THEN ("mp-syndicate-to" :> d.syndicate_to) ELSE EmptyMap)
    @@ (IF d.photo # << >> THEN ("photo" :> photo_values(d.photo, replacements))
        ELSE EmptyMap)
    @@ (IF d.category # << >> THEN ("category" :> d.category) ELSE EmptyMap)
    @@ (IF d.name # None THEN ("name" :> << d.name >>) ELSE EmptyMap)
    @@ ("content" :> << content_text(replace_paths(d.content, replacements)) >>)

\* draft_push.rs 206-222.
overwrites_published(d) ==
    d.url # None /\ d.status \notin {"server-draft", "draft", None}

\* Variant: the update replaces the content and the metadata but not the
\* post status.
update_replace_without_status(properties) ==
    [k \in DOMAIN properties
           \cap {"content", "name", "category", "photo", "published", "mp-syndicate-to"}
        |-> properties[k]]

\* draft_push.rs 226-251.
update_replace(properties) ==
    [k \in DOMAIN properties
           \cap {"content", "name", "category", "photo", "published", "post-status",
                 "mp-syndicate-to"}
        |-> properties[k]]

\* draft_push.rs 224-269.
push_request(d, properties) ==
    IF d.url # None
    THEN [action |-> "update", properties |-> EmptyMap,
          replace |-> update_replace(properties), url |-> d.url]
    ELSE [action |-> "create", properties |-> properties, replace |-> EmptyMap,
          url |-> None]

\* client.rs 30-88, for the two actions cmd_push_draft builds; add and
\* delete are empty and left out.
to_json(request) ==
    IF request.action = "create"
    THEN [type |-> << "h-entry" >>, properties |-> request.properties]
    ELSE IF request.replace # EmptyMap
    THEN [action |-> "update", url |-> request.url, replace |-> request.replace]
    ELSE [action |-> "update", url |-> request.url]

\* `?` and bail!: the command returns Err.
Bail(reason) == pc' = "Failed" /\ failReason' = reason

\* draft_push.rs 48.
PushValidateId ==
    /\ pc = "PushValidateId"
    /\ IF validate_draft_id(push.draft_id)
       THEN pc' = "PushLoadDraft" /\ UNCHANGED failReason
       ELSE Bail("InvalidDraftId")
    /\ UNCHANGED << domain, scope, drafts_dir, app, history, archive, rng, draft, push, occupied, response, replies, disk, config,
                    discovery, http, listener, pkce, auth_url, browser, cells, server,
                    inflight, arrived, local >>

\* draft_push.rs 51.
PushLoadDraft ==
    /\ pc = "PushLoadDraft"
    /\ IF draft.exists
       THEN pc' = "PushLoadConfig" /\ UNCHANGED failReason
       ELSE Bail("DraftLoad")
    /\ UNCHANGED << domain, scope, drafts_dir, app, history, archive, rng, draft, push, occupied, response, replies, disk, config,
                    discovery, http, listener, pkce, auth_url, browser, cells, server,
                    inflight, arrived, local >>

\* draft_push.rs 57-61.
push_profile_name(d, cfg) == IF d.profile # None THEN d.profile ELSE cfg.default_profile

\* draft_push.rs 54-69: the configuration, the profile and its token.
PushLoadConfig ==
    /\ pc = "PushLoadConfig"
    /\ config' = [default_profile |-> disk.default_profile, profiles |-> disk.profiles]
    /\ LET name == push_profile_name(draft, config')
       IN  IF ~\E q \in config'.profiles : q.name = name
           THEN Bail("ProfileNotFound") /\ UNCHANGED push
           ELSE IF ~\E t \in disk.tokens : t.name = name
           THEN Bail("TokenNotFound") /\ UNCHANGED push
           ELSE /\ push' = [push EXCEPT
                      !.profile_name = name,
                      !.token = (CHOOSE t \in disk.tokens : t.name = name).token,
                      !.media_endpoint =
                          (CHOOSE q \in config'.profiles : q.name = name).media,
                      !.micropub_endpoint =
                          (CHOOSE q \in config'.profiles : q.name = name).micropub]
                /\ pc' = "PushCollectMedia"
                /\ UNCHANGED failReason
    /\ UNCHANGED << domain, scope, drafts_dir, app, history, archive, rng, draft, occupied, response, replies, disk,
                    discovery, http, listener, pkce, auth_url, browser, cells, server,
                    inflight, arrived, local >>

\* draft_push.rs 72-98.
PushCollectMedia ==
    /\ pc = "PushCollectMedia"
    /\ IF media_refs(draft) = {}
       THEN pc' = "PushBuildRequest" /\ UNCHANGED << failReason, push >>
       ELSE IF push.media_endpoint = None
       THEN Bail("NoMediaEndpoint") /\ UNCHANGED push
       ELSE /\ push' = [push EXCEPT !.pending = media_refs(draft)]
            /\ pc' = "PushUpload"
            /\ UNCHANGED failReason
    /\ UNCHANGED << domain, scope, drafts_dir, app, history, archive, rng, draft, occupied, response, replies, disk, config,
                    discovery, http, listener, pkce, auth_url, browser, cells, server,
                    inflight, arrived, local >>

\* The URL the media endpoint gives an uploaded file.
uploaded_url(path) == "https://media.example/" \o path

\* draft_push.rs 102-121 with upload_file (media.rs 62-111): one pass of the
\* loop, over the HashSet in any order.
PushUpload ==
    /\ pc = "PushUpload"
    /\ \E path \in push.pending, outcome \in {"ok", "file_missing", "rejected"} :
         /\ http' = IF outcome = "file_missing" THEN http
                    ELSE Append(http, [kind |-> "upload", url |-> push.media_endpoint,
                                       bearer |-> push.token, file |-> path])
         /\ IF outcome = "ok"
            THEN /\ push' = [push EXCEPT
                       !.pending = @ \ {path},
                       !.replacements = @ \cup { [local |-> path, url |-> uploaded_url(path)] }]
                 /\ pc' = IF push.pending = {path} THEN "PushBuildRequest" ELSE "PushUpload"
                 /\ UNCHANGED failReason
            ELSE /\ Bail(IF outcome = "rejected" THEN "UploadFailed" ELSE "FileNotFound")
                 /\ UNCHANGED push
    /\ UNCHANGED << domain, scope, drafts_dir, app, history, archive, rng, draft, occupied, response, replies, disk, config,
                    discovery, listener, pkce, auth_url, browser, cells, server,
                    inflight, arrived, local >>

\* draft_push.rs 125-269: the properties, the guard against overwriting a
\* published post, and the request.
PushBuildRequest ==
    /\ pc = "PushBuildRequest"
    /\ IF photo_missing(draft.photo, push.replacements)
       THEN Bail("PhotoNotUploaded") /\ UNCHANGED push
       ELSE IF overwrites_published(draft)
       THEN Bail("PublishedPost") /\ UNCHANGED push
       ELSE /\ push' = [push EXCEPT !.request =
                          push_request(draft,
                              push_properties(draft, push.replacements, push.backdate))]
            /\ pc' = "PushSend"
            /\ UNCHANGED failReason
    /\ UNCHANGED << domain, scope, drafts_dir, app, history, archive, rng, draft, occupied, response, replies, disk, config,
                    discovery, http, listener, pkce, auth_url, browser, cells, server,
                    inflight, arrived, local >>

\* The Micropub endpoint's answers to the request: created, done with the
\* post at another URL, done without a URL, refused, and no answer.
PushResponses ==
    { [net |-> "ok", status |-> 201, location |-> "https://example.com/posts/1"],
      [net |-> "ok", status |-> 200, location |-> "https://example.com/posts/2"],
      [net |-> "ok", status |-> 204, location |-> None],
      [net |-> "ok", status |-> 400, location |-> None],
      [net |-> "error", status |-> 0, location |-> None] }

\* draft_push.rs 272-283 with MicropubClient::send (client.rs 114-156).
PushSend ==
    /\ pc = "PushSend"
    /\ IF push.micropub_endpoint = None
       THEN Bail("NoMicropubEndpoint") /\ UNCHANGED << http, push >>
       ELSE /\ http' = Append(http, [kind |-> "micropub", url |-> push.micropub_endpoint,
                                     bearer |-> push.token,
                                     body |-> to_json(push.request)])
            /\ \E r \in PushResponses :
                 IF r.net # "ok" THEN Bail("SendFailed") /\ UNCHANGED push
                 ELSE IF ~is_success(r.status) THEN Bail("ServerError") /\ UNCHANGED push
                 ELSE IF r.location = None THEN Bail("NoUrlReturned") /\ UNCHANGED push
                 ELSE /\ push' = [push EXCEPT !.server_url = r.location]
                      /\ pc' = "PushSave"
                      /\ UNCHANGED failReason
    /\ UNCHANGED << domain, scope, drafts_dir, app, history, archive, rng, draft, occupied, response, replies, disk, config,
                    discovery, listener, pkce, auth_url, browser, cells, server,
                    inflight, arrived, local >>

\* draft_push.rs 284-291: the draft file gets the status and the URL.
PushSave ==
    /\ pc = "PushSave"
    /\ \E ok \in BOOLEAN :
         IF ok
         THEN /\ draft' = [draft EXCEPT !.status = "server-draft",
                                        !.url = push.server_url]
              /\ pc' = "Done"
              /\ UNCHANGED failReason
         ELSE Bail("DraftSave") /\ UNCHANGED draft
    /\ UNCHANGED << domain, scope, drafts_dir, app, history, archive, rng, push, occupied, response, replies, disk, config,
                    discovery, http, listener, pkce, auth_url, browser, cells, server,
                    inflight, arrived, local >>

\* The draft files, the configurations and the arguments of a push.
PushDrafts ==
    { NoDraft }
    \cup [exists : {TRUE}, profile : {None},
          status : {None, "draft", "server-draft", "published"},
          url : {None, "https://example.com/posts/1"},
          name : {"Title"}, category : {<< "notes" >>},
          photo : {<< >>, << "photo.jpg" >>, << "https://cdn.example/p.jpg" >>},
          syndicate_to : {<< >>}, published : {None},
          content : { << [kind |-> "text", s |-> "Hello"] >>,
                      << [kind |-> "text", s |-> "Hello "],
                         [kind |-> "img", s |-> "img.png"] >> }]

PushProfile(micropub, media) ==
    [name |-> "example.com", domain |-> "example.com", micropub |-> micropub,
     media |-> media]

PushDisks ==
    { [default_profile |-> "example.com",
       profiles |-> { PushProfile("https://example.com/micropub", "https://media.example/upload") },
       tokens |-> { [name |-> "example.com", token |-> "tok1"] }],
      [default_profile |-> "example.com",
       profiles |-> { PushProfile("https://example.com/micropub", None) },
       tokens |-> { [name |-> "example.com", token |-> "tok1"] }],
      [default_profile |-> "example.com",
       profiles |-> { PushProfile(None, "https://media.example/upload") },
       tokens |-> { [name |-> "example.com", token |-> "tok1"] }],
      [default_profile |-> "example.com",
       profiles |-> { PushProfile("https://example.com/micropub", "https://media.example/upload") },
       tokens |-> {}],
      [default_profile |-> "missing",
       profiles |-> { PushProfile("https://example.com/micropub", "https://media.example/upload") },
       tokens |-> { [name |-> "example.com", token |-> "tok1"] }] }

PushArguments ==
    [draft_id : {"draft-1", "../draft-1"}, backdate : {None, "2020-01-01T00:00:00+00:00"}]

PushInit ==
    /\ domain = "example.com"
    /\ scope = None
    /\ pc = "PushValidateId"
    /\ failReason = None
    /\ disk \in PushDisks
    /\ config = NoConfig
    /\ discovery = NotDiscovered
    /\ http = << >>
    /\ listener = [port |-> 0, owner |-> "none"]
    /\ pkce = NoPkce
    /\ auth_url = NoAuthUrl
    /\ browser = "no"
    /\ cells = [code |-> None, state |-> None, error |-> None]
    /\ server = [status |-> "not_started", clock |-> 0, poll_due |-> FALSE]
    /\ inflight = {}
    /\ arrived = 0
    /\ local = NoLocal
    /\ occupied = {}
    /\ response = NoResponse
    /\ replies = {}
    /\ rng = << >>
    /\ draft \in PushDrafts
    /\ drafts_dir = NoDraftsDir
    /\ app = NoApp
    /\ history = << >>
    /\ archive = NoDraft
    /\ \E a \in PushArguments :
         push = [NoPush EXCEPT !.draft_id = a.draft_id, !.backdate = a.backdate]

PushNext ==
    \/ PushValidateId \/ PushLoadDraft \/ PushLoadConfig \/ PushCollectMedia
    \/ PushUpload \/ PushBuildRequest \/ PushSend \/ PushSave

PushSpec == PushInit /\ [][PushNext]_vars

(***************************************************************************)
(* cmd_publish (publish.rs 13-291) on the same draft file, its arguments   *)
(* and locals kept in push.  The published_at stamp is not modelled.       *)
(***************************************************************************)
IsLocalImage(c) == c.kind = "img" /\ is_local_path(c.s)

\* publish.rs 45-54: the references of the content in order, then the
\* local photos; a path named twice is listed twice.
publish_media_refs(d) ==
    [i \in 1..Len(SelectSeq(d.content, IsLocalImage)) |->
        SelectSeq(d.content, IsLocalImage)[i].s]
    \o SelectSeq(d.photo, is_local_path)

\* publish.rs 121-139: the uploaded photo URLs when there are any, else
\* the photo values of the draft.
publish_photo_values(photo, photo_urls) ==
    IF photo_urls # << >> THEN photo_urls ELSE photo

\* publish.rs 90-164.
publish_properties(d, replacements, photo_urls, backdate) ==
    (IF published_date(d, backdate) # None
     THEN ("published" :> << published_date(d, backdate) >>) ELSE EmptyMap)
    @@ (IF d.syndicate_to # << >> THEN ("mp-syndicate-to" :> d.syndicate_to) ELSE EmptyMap)
    @@ (IF d.photo # << >> THEN ("photo" :> publish_photo_values(d.photo, photo_urls))
        ELSE EmptyMap)
    @@ (IF d.category # << >> THEN ("category" :> d.category) ELSE EmptyMap)
    @@ (IF d.name # None THEN ("name" :> << d.name >>) ELSE EmptyMap)
    @@ ("content" :> << content_text(replace_paths(d.content, replacements)) >>)

\* publish.rs 167-168.
is_server_draft(d) == d.url # None /\ d.status = "server-draft"

\* publish.rs 174-240: the replace map repeats the inserts of the
\* properties and adds the post status.
publish_replace(properties) == ("post-status" :> << "published" >>) @@ properties

\* Variant: a server draft is published by a second create.
publish_request_always_create(d, properties) ==
    [action |-> "create", properties |-> properties, replace |-> EmptyMap, url |-> None]

\* publish.rs 170-263.
publish_request(d, properties) ==
    IF is_server_draft(d)
    THEN [action |-> "update", properties |-> EmptyMap,
          replace |-> publish_replace(properties), url |-> d.url]
    ELSE [action |-> "create", properties |-> properties, replace |-> EmptyMap,
          url |-> None]

\* publish.rs 17-24 with Draft::load (draft.rs 107-114).
PublishLoadDraft ==
    /\ pc = "PublishLoadDraft"
    /\ IF ~validate_draft_id(push.draft_id) THEN Bail("InvalidDraftId")
       ELSE IF ~draft.exists THEN Bail("DraftLoad")
       ELSE pc' = "PublishLoadConfig" /\ UNCHANGED failReason
    /\ UNCHANGED << domain, scope, drafts_dir, app, history, archive, rng, draft, push, occupied, response,
                    replies, disk, config, discovery, http, listener, pkce, auth_url,
                    browser, cells, server, inflight, arrived, local >>

\* publish.rs 27-42: the configuration, the profile and its token.
PublishLoadConfig ==
    /\ pc = "PublishLoadConfig"
    /\ config' = [default_profile |-> disk.default_profile, profiles |-> disk.profiles]
    /\ LET name == push_profile_name(draft, config')
       IN  IF ~\E q \in config'.profiles : q.name = name
           THEN Bail("ProfileNotFound") /\ UNCHANGED push
           ELSE IF ~\E t \in disk.tokens : t.name = name
           THEN Bail("TokenNotFound") /\ UNCHANGED push
           ELSE /\ push' = [push EXCEPT
                      !.profile_name = name,
                      !.token = (CHOOSE t \in disk.tokens : t.name = name).token,
                      !.media_endpoint =
                          (CHOOSE q \in config'.profiles : q.name = name).media,
                      !.micropub_endpoint =
                          (CHOOSE q \in config'.profiles : q.name = name).micropub]
                /\ pc' = "PublishCollectMedia"
                /\ UNCHANGED failReason
    /\ UNCHANGED << domain, scope, drafts_dir, app, history, archive, rng, draft, occupied, response, replies,
                    disk, discovery, http, listener, pkce, auth_url, browser, cells,
                    server, inflight, arrived, local >>

\* publish.rs 45-66.
PublishCollectMedia ==
    /\ pc = "PublishCollectMedia"
    /\ IF publish_media_refs(draft) = << >>
       THEN pc' = "PublishBuildRequest" /\ UNCHANGED << failReason, push >>
       ELSE IF push.media_endpoint = None
       THEN Bail("NoMediaEndpoint") /\ UNCHANGED push
       ELSE /\ push' = [push EXCEPT !.queue = publish_media_refs(draft)]
            /\ pc' = "PublishUpload"
            /\ UNCHANGED failReason
    /\ UNCHANGED << domain, scope, drafts_dir, app, history, archive, rng, draft, occupied, response, replies,
                    disk, config, discovery, http, listener, pkce, auth_url, browser,
                    cells, server, inflight, arrived, local >>

\* publish.rs 68-87 with upload_file (media.rs 62-111): one pass of the
\* loop, in the order of the list.
PublishUpload ==
    /\ pc = "PublishUpload"
    /\ \E outcome \in {"ok", "file_missing", "rejected"} :
         /\ http' = IF outcome = "file_missing" THEN http
                    ELSE Append(http, [kind |-> "upload", url |-> push.media_endpoint,
                                       bearer |-> push.token, file |-> Head(push.queue)])
         /\ IF outcome = "ok"
            THEN /\ push' = [push EXCEPT
                       !.queue = Tail(@),
                       !.replacements =
                           @ \cup { [local |-> Head(push.queue),
                                     url |-> uploaded_url(Head(push.queue))] },
                       !.photo_urls =
                           IF \E i \in 1..Len(draft.photo) : draft.photo[i] = Head(push.queue)
                           THEN Append(@, uploaded_url(Head(push.queue))) ELSE @]
                 /\ pc' = IF Len(push.queue) = 1 THEN "PublishBuildRequest"
                          ELSE "PublishUpload"
                 /\ UNCHANGED failReason
            ELSE /\ Bail(IF outcome = "rejected" THEN "UploadFailed" ELSE "FileNotFound")
                 /\ UNCHANGED push
    /\ UNCHANGED << domain, scope, drafts_dir, app, history, archive, rng, draft, occupied, response, replies,
                    disk, config, discovery, listener, pkce, auth_url, browser, cells,
                    server, inflight, arrived, local >>

\* publish.rs 90-263: the properties and the request.
PublishBuildRequest ==
    /\ pc = "PublishBuildRequest"
    /\ push' = [push EXCEPT !.request =
                  publish_request(draft,
                      publish_properties(draft, push.replacements, push.photo_urls,
                                         push.backdate))]
    /\ pc' = "PublishSend"
    /\ UNCHANGED << domain, scope, drafts_dir, app, history, archive, rng, draft, occupied, response, replies,
                    failReason, disk, config, discovery, http, listener, pkce, auth_url,
                    browser, cells, server, inflight, arrived, local >>

\* publish.rs 265-275 with MicropubClient::send (client.rs 114-156): a
\* successful answer need not name a URL.
PublishSend ==
    /\ pc = "PublishSend"
    /\ IF push.micropub_endpoint = None
       THEN Bail("NoMicropubEndpoint") /\ UNCHANGED << http, push >>
       ELSE /\ http' = Append(http, [kind |-> "micropub", url |-> push.micropub_endpoint,
                                     bearer |-> push.token,
                                     body |-> to_json(push.request)])
            /\ \E r \in PushResponses :
                 IF r.net # "ok" THEN Bail("SendFailed") /\ UNCHANGED push
                 ELSE IF ~is_success(r.status) THEN Bail("ServerError") /\ UNCHANGED push
                 ELSE /\ push' = [push EXCEPT !.server_url = r.location]
                      /\ pc' = "PublishArchive"
                      /\ UNCHANGED failReason
    /\ UNCHANGED << domain, scope, drafts_dir, app, history, archive, rng, draft, occupied, response, replies,
                    disk, config, discovery, listener, pkce, auth_url, browser, cells,
                    server, inflight, arrived, local >>

\* draft.rs 139-143: the file is removed from the drafts directory.
drafts_file_after_archive(d) == NoDraft

\* publish.rs 277-281 with Draft::archive (draft.rs 133-146): the archive
\* copy is written with the new status and URL, then the draft file is
\* removed; either file operation may fail.
PublishArchive ==
    /\ pc = "PublishArchive"
    /\ \E fs \in {"ok", "write_failed", "remove_failed"} :
         /\ archive' = IF fs = "write_failed" THEN archive
                       ELSE [draft EXCEPT !.status = "published",
                                          !.url = push.server_url]
         /\ draft' = IF fs = "ok" THEN drafts_file_after_archive(draft) ELSE draft
         /\ IF fs = "ok" THEN pc' = "Done" /\ UNCHANGED failReason
            ELSE Bail("ArchiveFailed")
    /\ UNCHANGED << domain, scope, drafts_dir, app, history, rng, push, occupied, response, replies, disk,
                    config, discovery, http, listener, pkce, auth_url, browser, cells,
                    server, inflight, arrived, local >>

(***************************************************************************)
(* A sequence of push and publish commands on one draft: up to MaxCommands *)
(* runs of cmd_push_draft and cmd_publish, one after the other.            *)
(***************************************************************************)
\* A command is started with the draft's id.
StartCommand ==
    /\ pc = "Shell"
    /\ Len(history) < MaxCommands
    /\ \E c \in {"push", "publish"} :
         /\ history' = Append(history, [command |-> c, result |-> "running"])
         /\ pc' = IF c = "push" THEN "PushValidateId" ELSE "PublishLoadDraft"
    /\ push' = [NoPush EXCEPT !.draft_id = "draft-1"]
    /\ failReason' = None
    /\ UNCHANGED << domain, scope, drafts_dir, app, archive, rng, draft, occupied, response, replies, disk,
                    config, discovery, http, listener, pkce, auth_url, browser, cells,
                    server, inflight, arrived, local >>

\* The command has returned Ok or Err.
CommandReturns ==
    /\ pc \in {"Done", "Failed"}
    /\ history # << >>
    /\ history' = [history EXCEPT ![Len(history)].result =
                      IF pc = "Done" THEN "ok" ELSE "failed"]
    /\ pc' = "Shell"
    /\ push' = NoPush
    /\ failReason' = None
    /\ UNCHANGED << domain, scope, drafts_dir, app, archive, rng, draft, occupied, response, replies, disk,
                    config, discovery, http, listener, pkce, auth_url, browser, cells,
                    server, inflight, arrived, local >>

\* The draft the commands are run on: never pushed, with and without media.
LifecycleDrafts ==
    [exists : {TRUE}, profile : {None}, status : {None, "draft"}, url : {None},
     name : {"Title"}, category : {<< "notes" >>},
     photo : {<< >>, << "photo.jpg" >>},
     syndicate_to : {<< >>}, published : {None},
     content : { << [kind |-> "text", s |-> "Hello"] >>,
                 << [kind |-> "text", s |-> "Hello "],
                    [kind |-> "img", s |-> "img.png"] >> }]

LifecycleInit ==
    /\ domain = "example.com"
    /\ scope = None
    /\ pc = "Shell"
    /\ failReason = None
    /\ disk = [default_profile |-> "example.com",
               profiles |-> { PushProfile("https://example.com/micropub",
                                          "https://media.example/upload") },
               tokens |-> { [name |-> "example.com", token |-> "tok1"] }]
    /\ config = NoConfig
    /\ discovery = NotDiscovered
    /\ http = << >>
    /\ listener = [port |-> 0, owner |-> "none"]
    /\ pkce = NoPkce
    /\ auth_url = NoAuthUrl
    /\ browser = "no"
    /\ cells = [code |-> None, state |-> None, error |-> None]
    /\ server = [status |-> "not_started", clock |-> 0, poll_due |-> FALSE]
    /\ inflight = {}
    /\ arrived = 0
    /\ local = NoLocal
    /\ occupied = {}
    /\ response = NoResponse
    /\ replies = {}
    /\ rng = << >>
    /\ draft \in LifecycleDrafts
    /\ drafts_dir = NoDraftsDir
    /\ app = NoApp
    /\ history = << >>
    /\ archive = NoDraft
    /\ push = NoPush

PublishNext ==
    \/ PublishLoadDraft \/ PublishLoadConfig \/ PublishCollectMedia \/ PublishUpload
    \/ PublishBuildRequest \/ PublishSend \/ PublishArchive

LifecycleNext == StartCommand \/ CommandReturns \/ PushNext \/ PublishNext

LifecycleSpec == LifecycleInit /\ [][LifecycleNext]_vars

(***************************************************************************)
(* validate_scope on its own: the flow up to the scope check, for every    *)
(* scope string of up to MaxScopeLen characters over letters, digits, the  *)
(* three allowed marks and characters that must be refused.                *)
(***************************************************************************)
ScopeAlphabet ==
    {"a", "Z", "0", " ", "-", "_", ";", "&", "=", "\n", "\r", "\t", "\"", "'",
     "[", "é"}

RECURSIVE ScopeStrings(_)
ScopeStrings(n) ==
    IF n = 0 THEN {""}
    ELSE ScopeStrings(n - 1)
         \cup { s \o c : s \in ScopeStrings(n - 1), c \in ScopeAlphabet }

ScopeInit ==
    /\ domain = "example.com"
    /\ scope \in ScopeStrings(MaxScopeLen)
    /\ pc = "LoadConfig"
    /\ failReason = None
    /\ disk = InitialDisk
    /\ config = NoConfig
    /\ discovery = NotDiscovered
    /\ http = << >>
    /\ listener = [port |-> 0, owner |-> "none"]
    /\ pkce = NoPkce
    /\ auth_url = NoAuthUrl
    /\ browser = "no"
    /\ cells = [code |-> None, state |-> None, error |-> None]
    /\ server = [status |-> "not_started", clock |-> 0, poll_due |-> FALSE]
    /\ inflight = {}
    /\ arrived = 0
    /\ local = NoLocal
    /\ occupied = {}
    /\ response = NoResponse
    /\ replies = {}
    /\ rng = << >>
    /\ draft = NoDraft
    /\ drafts_dir = NoDraftsDir
    /\ app = NoApp
    /\ history = << >>
    /\ archive = NoDraft
    /\ push = NoPush

ScopeNext ==
    LoadConfig \/ Discover(FlowResponses) \/ BindPort \/ GeneratePkce(PkceDraws) \/ ValidateScope

ScopeSpec == ScopeInit /\ [][ScopeNext]_vars

(***************************************************************************)
(* generate_state on its own: the flow up to the PKCE material, for every  *)
(* sequence of StateBytes bytes over a sample of the byte values.          *)
(***************************************************************************)
ByteSamples == {0, 1, 16, 17, 171, 255}

ByteSequences == [1..StateBytes -> ByteSamples]

StateInit ==
    /\ domain = "example.com"
    /\ scope = None
    /\ pc = "LoadConfig"
    /\ failReason = None
    /\ disk = InitialDisk
    /\ config = NoConfig
    /\ discovery = NotDiscovered
    /\ http = << >>
    /\ listener = [port |-> 0, owner |-> "none"]
    /\ pkce = NoPkce
    /\ auth_url = NoAuthUrl
    /\ browser = "no"
    /\ cells = [code |-> None, state |-> None, error |-> None]
    /\ server = [status |-> "not_started", clock |-> 0, poll_due |-> FALSE]
    /\ inflight = {}
    /\ arrived = 0
    /\ local = NoLocal
    /\ occupied = {}
    /\ response = NoResponse
    /\ replies = {}
    /\ rng \in ByteSequences
    /\ draft = NoDraft
    /\ drafts_dir = NoDraftsDir
    /\ app = NoApp
    /\ history = << >>
    /\ archive = NoDraft
    /\ push = NoPush

\* The state is the rendering of the bytes the RNG yields.
StateDraws == { [verifier |-> v, state |-> generate_state(rng)] : v \in Verifiers }

StateNext ==
    LoadConfig \/ Discover(FlowResponses) \/ BindPort \/ GeneratePkce(StateDraws)

StateSpec == StateInit /\ [][StateNext]_vars

(***************************************************************************)
(* The saving steps on their own: cmd_auth of one domain at the point      *)
(* where its token has been validated, on a disk that an earlier cmd_auth  *)
(* of another (or the same) domain has written.                            *)
(***************************************************************************)
ProfileDomains ==
    {"example.com", "https://example.com", "https://example.com:8443",
     "example.com:8443", "https://other.example", "localhost", "localhost:3000",
     "http://localhost", "https://localhost", "http://localhost:3000",
     "http://127.0.0.1:3000"}

\* What cmd_auth(earlier) leaves on disk (auth.rs 586-648).
disk_after_auth(earlier) ==
    [ default_profile |-> profile_name_of(earlier),
      profiles |-> { [name |-> profile_name_of(earlier), domain |-> earlier,
                      micropub |-> "https://old.example/micropub", media |-> None] },
      tokens   |-> { [name |-> profile_name_of(earlier), token |-> "oldtoken"] } ]

ProfileInit ==
    /\ domain \in ProfileDomains
    /\ scope = None
    /\ pc = "SaveToken"
    /\ failReason = None
    /\ \E earlier \in ProfileDomains : disk = disk_after_auth(earlier)
    /\ config = [default_profile |-> disk.default_profile, profiles |-> disk.profiles]
    /\ response = [net |-> "ok", redirect |-> None, links |-> HeaderLinks, html |-> << >>]
    /\ discovery = discover_endpoints(domain, response)
    /\ discovery.ok
    /\ listener = [port |-> 8089, owner |-> "closed"]
    /\ pkce = [code_verifier |-> "v1", code_challenge |-> generate_code_challenge("v1"),
               state |-> "s1"]
    /\ auth_url =
         [endpoint |-> discovery.auth, response_type |-> "code",
          client_id |-> default_client_id,
          redirect_uri |-> "http://127.0.0.1:8089/callback",
          state |-> "s1", code_challenge |-> pkce.code_challenge,
          code_challenge_method |-> "S256", scope |-> DefaultScope,
          me |-> me_param_of(domain)]
    /\ browser = "opened"
    /\ cells = [code |-> "c1", state |-> "s1", error |-> None]
    /\ server = [status |-> "finished", clock |-> 0, poll_due |-> FALSE]
    /\ inflight = {}
    /\ arrived = 1
    /\ replies = { [req |-> [path |-> "/callback", error |-> None, code |-> "c1",
                             state |-> "s1"],
                    status |-> 200] }
    /\ local = [NoLocal EXCEPT !.code = "c1", !.received_state = "s1",
                               !.exchange = [net |-> "ok", status |-> 299,
                                             body |-> "token", token |-> "tok1"],
                               !.token = "tok1", !.probe = "ok", !.status = 200,
                               !.outcome = "Accepted"]
    /\ http = DiscoveryGets(discovery)
              \o << [kind |-> "exchange", url |-> discovery.token, code |-> "c1",
                     code_verifier |-> "v1", redirect_uri |-> auth_url.redirect_uri,
                     client_id |-> default_client_id],
                    [kind |-> "validation", url |-> discovery.micropub \o "?q=config",
                     bearer |-> "tok1"] >>
    /\ occupied = {}
    /\ rng = << >>
    /\ draft = NoDraft
    /\ drafts_dir = NoDraftsDir
    /\ app = NoApp
    /\ history = << >>
    /\ archive = NoDraft
    /\ push = NoPush

ProfileNext == SaveToken \/ DiscoverMedia \/ SaveProfile

ProfileSpec == ProfileInit /\ [][ProfileNext]_vars

(***************************************************************************)
(* cmd_auth up to the authorization URL, run on the wider set of domains.  *)
(***************************************************************************)
IdentityNext ==
    \/ LoadConfig \/ Discover(FlowResponses) \/ BindPort \/ GeneratePkce(PkceDraws)
    \/ ValidateScope \/ BuildAuthUrl

IdentitySpec == DiscoveryInit /\ [][IdentityNext]_vars

(***************************************************************************)
(* Properties.                                                             *)
(***************************************************************************)
Requests(kind) == { i \in 1..Len(http) : http[i].kind = kind }

Terminated == pc \in {"Done", "Failed"}

\* The steps of cmd_auth after the join of the server task.
AfterWait ==
    {"CheckError", "ExtractCode", "VerifyState", "Exchange", "ValidateToken",
     "SaveToken", "DiscoverMedia", "SaveProfile", "Done"}

\* The listening socket is closed: the port can be bound again.
PortFree == listener.owner \notin {"orchestrator", "server"}

ServerTaskEnded == server.status \in {"not_started", "finished", "timed_out"}

\* C1: whenever the state read from the callback cells differs from the
\* CSRF state generated for the flow, the flow goes no further than the
\* comparison: it fails with the state-mismatch error, no request is sent
\* to the token endpoint and no token file is written.
C1_StateMismatchNeverExchanged ==
    (local.received_state # None /\ local.received_state # pkce.state) =>
        /\ pc \in {"VerifyState", "Failed"}
        /\ (pc = "Failed" => failReason = "CsrfMismatch")
        /\ Requests("exchange") = {}
        /\ disk = InitialDisk

C1_Witness ==
    /\ pc = "Failed"
    /\ failReason = "CsrfMismatch"
    /\ local.received_state # pkce.state
    /\ local.code # None

\* C2 as stated: every flow in which an authorization error was stored
\* ends with the authorization-denied error and without a token exchange.
C2_ErrorAlwaysDenied ==
    (cells.error # None /\ Terminated) =>
        /\ pc = "Failed"
        /\ failReason = "AuthorizationDenied"
        /\ Requests("exchange") = {}

\* The part of C2 that holds: in every flow in which an authorization error
\* was stored no token exchange is issued and the flow fails, whatever other callback
\* requests delivered: with the authorization-denied error when the
\* listener task ended by its graceful shutdown, with the callback timeout
\* when the 5-minute ceiling elapsed before the watcher saw the error.
C2_ErrorNeverExchanged ==
    cells.error # None =>
        /\ Requests("exchange") = {}
        /\ pc \notin (AfterWait \ {"CheckError"})
        /\ Terminated =>
             /\ pc = "Failed"
             /\ server.status = "finished" => failReason = "AuthorizationDenied"
             /\ server.status = "timed_out" => failReason = "Timeout"
             /\ server.status \in {"finished", "timed_out"}

C2_Witness ==
    /\ pc = "Failed"
    /\ failReason = "AuthorizationDenied"
    /\ cells.error # None
    /\ cells.code # None
    /\ cells.state = pkce.state

TerminalResult(c) == c.error # None \/ (c.code # None /\ c.state # None)

\* C3: once the callback cells hold a terminal result (an error, or a code
\* and a state), no step changes them.
C3_ResultWrittenOnce == [][TerminalResult(cells) => cells' = cells]_vars

\* C4: a flow whose listener receives no request ends in failure with the
\* timeout, at the ceiling and not before, without an exchange, with the
\* listener task ended and the port free; and it does end.
C4_NoRequestTimesOut ==
    /\ []((pc \in AfterWait \cup {"Failed"} /\ server.status # "not_started"
             /\ arrived = 0) =>
            /\ pc = "Failed"
            /\ failReason = "Timeout"
            /\ server.status = "timed_out"
            /\ server.clock = DeadlineTicks
            /\ Requests("exchange") = {}
            /\ PortFree)
    /\ ((server.status = "serving" /\ arrived = 0) ~>
            (arrived > 0 \/ (pc = "Failed" /\ failReason = "Timeout" /\ PortFree)))

C4_Witness ==
    /\ pc = "Failed"
    /\ failReason = "Timeout"
    /\ arrived = 0
    /\ server.clock = DeadlineTicks
    /\ PortFree

\* C5: in every terminal state of a flow that bound a callback port the
\* listening socket is closed and the listener task has ended.
C5_NothingOutlivesTheFlow ==
    (Terminated /\ listener.port # 0) => (PortFree /\ ServerTaskEnded)

C5_Witness ==
    /\ pc = "Failed"
    /\ failReason = "Timeout"
    /\ listener.port # 0
    /\ inflight = {}
    /\ cells.code # None

\* C6: a flow that fails on an invalid scope has sent no HTTP request.
C6_InvalidScopeBeforeNetwork ==
    (pc = "Failed" /\ failReason = "InvalidScope") => http = << >>

\* C7: discovery returns endpoints only from a final URL that is HTTPS or
\* whose host is a loopback host.
C7_FinalUrlSecureOrLoopback ==
    discovery.ok =>
        \/ UrlScheme(discovery.final) = "https"
        \/ UrlHost(discovery.final) \in LoopbackHosts

\* The failures of cmd_auth that happen while it writes the token file and
\* the configuration.
PersistenceFailures == {"TokenFile", "ConfigSave"}

\* C8: the token file and the saved configuration change only in flows
\* whose validation probe was classified Accepted or AcceptedWithWarning;
\* a flow that failed at any earlier step leaves both as they were.
C8_PersistOnlyAfterValidation ==
    /\ disk # InitialDisk => local.outcome \in {"Accepted", "AcceptedWithWarning"}
    /\ (pc = "Failed" /\ failReason \notin PersistenceFailures) => disk = InitialDisk
    /\ pc = "Done" =>
         /\ [name |-> local.profile_name, token |-> local.token] \in disk.tokens
         /\ disk.default_profile = local.profile_name

C8_Witness ==
    /\ pc = "Done"
    /\ local.outcome = "AcceptedWithWarning"
    /\ disk # InitialDisk

\* C9: the status of the validation probe is classified by the table
\* 2xx Accepted, 401 and 403 Rejected, 429 AcceptedWithWarning, 5xx
\* AcceptedWithWarning, every other 4xx Rejected; a rejected flow fails and
\* an accepted one goes on to save the token, and only such a flow is Done.
C9_ValidationTable ==
    /\ local.probe = "ok" =>
         LET st == local.status
             o  == local.outcome
         IN  /\ o \in {"Accepted", "AcceptedWithWarning", "Rejected"}
             /\ (st >= 200 /\ st <= 299) => o = "Accepted"
             /\ st \in {401, 403} => o = "Rejected"
             /\ st = 429 => o = "AcceptedWithWarning"
             /\ (st >= 500 /\ st <= 599) => o = "AcceptedWithWarning"
             /\ (st >= 400 /\ st <= 499 /\ st \notin {401, 403, 429}) => o = "Rejected"
             /\ o = "Rejected" => (pc = "Failed" /\ failReason = "TokenRejected")
             /\ o # "Rejected" =>
                  \/ pc \in {"SaveToken", "DiscoverMedia", "SaveProfile", "Done"}
                  \/ (pc = "Failed" /\ failReason \in PersistenceFailures)
    /\ pc = "Done" =>
         (local.probe = "ok" /\ local.outcome \in {"Accepted", "AcceptedWithWarning"})

C9_Witness ==
    /\ pc = "Done"
    /\ local.status = 429
    /\ local.outcome = "AcceptedWithWarning"

\* C10: when the validation probe times out or cannot be sent the flow
\* fails with an error of its own, no outcome is recorded, and neither the
\* token nor the configuration is saved.
C10_ProbeFailureIsFatal ==
    local.probe \in {"timeout", "unreachable"} =>
        /\ pc = "Failed"
        /\ failReason = (IF local.probe = "timeout"
                         THEN "ValidationTimeout" ELSE "ValidationNetwork")
        /\ local.outcome = None
        /\ disk = InitialDisk
        /\ Requests("media") = {}

C10_Witness ==
    /\ pc = "Failed"
    /\ failReason = "ValidationTimeout"
    /\ local.probe = "timeout"
    /\ local.token # None

\* The statements of cmd_auth in the order of the source.
StepOrder ==
    << "LoadConfig", "Discover", "BindPort", "GeneratePkce", "ValidateScope",
       "BuildAuthUrl", "SpawnServer", "OpenBrowser", "AwaitServer", "CheckError",
       "ExtractCode", "VerifyState", "Exchange", "ValidateToken", "SaveToken",
       "DiscoverMedia", "SaveProfile", "Done" >>

StepIndex(p) == CHOOSE i \in 1..Len(StepOrder) : StepOrder[i] = p

RequestKinds == [i \in 1..Len(http) |-> http[i].kind]

\* C11: cmd_auth moves from each step to the next one of the fixed order
\* (discovery, bind, authorization URL, browser, wait, state verification,
\* exchange, validation, persistence) or to Failed, never anywhere else; a
\* flow that is Done has done every step; and once the flow is Failed (or
\* Done) it sends no request, opens no browser and writes nothing.
C11_FixedOrderFailedAbsorbing ==
    /\ [][ /\ (pc \notin {"Failed", "Done"} /\ pc' # pc) =>
                (pc' = "Failed" \/ StepIndex(pc') = StepIndex(pc) + 1)
           /\ pc \in {"Failed", "Done"} =>
                /\ pc' = pc
                /\ failReason' = failReason
                /\ http' = http
                /\ browser' = browser
                /\ disk' = disk ]_vars
    /\ [](pc = "Done" =>
            /\ failReason = None
            /\ discovery.ok
            /\ listener.port # 0
            /\ browser # "no"
            /\ server.status = "finished"
            /\ local.received_state = pkce.state
            /\ RequestKinds = << "discovery", "exchange", "validation", "media" >>
            /\ local.outcome \in {"Accepted", "AcceptedWithWarning"}
            /\ disk.default_profile = local.profile_name)
    /\ []((pc = "Failed") <=> (failReason # None))

C11_Witness ==
    /\ pc = "Done"
    /\ browser = "manual"
    /\ Len(http) = 4
    /\ listener.port = 49152

ExchangeFailures ==
    {"ExchangeNetwork", "ExchangeStatus", "ExchangeParse", "ExchangeNoToken"}

\* C12: a flow sends at most one token-exchange POST and at most one
\* validation GET, and an exchange that yields no token ends the flow at
\* once: the flow is Failed with the exchange's error after that one POST.
C12_NoStepRetried ==
    /\ Cardinality(Requests("exchange")) <= 1
    /\ Cardinality(Requests("validation")) <= 1
    /\ (local.exchange.net # "none" /\ local.token = None) =>
         /\ pc = "Failed"
         /\ failReason \in ExchangeFailures
         /\ Cardinality(Requests("exchange")) = 1
         /\ Requests("validation") = {}

C12_Witness ==
    /\ pc = "Failed"
    /\ failReason = "ExchangeStatus"
    /\ Cardinality(Requests("exchange")) = 1
    /\ local.exchange.status = 400

\* C13: the exchange yields a token exactly when the token endpoint
\* answered 2xx with a JSON body whose access_token is a string, and then
\* it is that string; a non-2xx status, an unparsable body and a body
\* without a string access_token each fail the flow with their own error,
\* and no validation probe is sent.
C13_TokenOnlyFrom2xxWithAccessToken ==
    local.exchange.net # "none" =>
        LET r == local.exchange
            ok2xx == r.net = "ok" /\ r.status >= 200 /\ r.status <= 299
        IN  /\ (local.token # None) <=> (ok2xx /\ r.body = "token")
            /\ local.token # None => local.token = r.token
            /\ local.token = None =>
                 /\ pc = "Failed"
                 /\ Requests("validation") = {}
                 /\ r.net # "ok" => failReason = "ExchangeNetwork"
                 /\ (r.net = "ok" /\ ~ok2xx) => failReason = "ExchangeStatus"
                 /\ (ok2xx /\ r.body = "not_json") => failReason = "ExchangeParse"
                 /\ (ok2xx /\ r.body \in {"no_token", "token_not_string"}) =>
                      failReason = "ExchangeNoToken"

C13_Witness ==
    /\ pc = "Failed"
    /\ failReason = "ExchangeNoToken"
    /\ local.exchange.status = 200
    /\ local.exchange.body = "token_not_string"
    /\ Requests("validation") = {}

ListenerStopped == server.status \in {"finished", "timed_out"}

\* C14: the listener task ends by its graceful shutdown only with a
\* terminal result in the cells and never later than the deadline, it ends
\* on the deadline only when the deadline has elapsed, and once a terminal
\* result is stored the listener does stop and cmd_auth goes on past its
\* wait.
C14_ListenerStopsOnResultOrDeadline ==
    /\ [](/\ server.status = "draining" => shutdown_signalled(cells)
          /\ server.status = "finished" =>
                (TerminalResult(cells) /\ server.clock <= DeadlineTicks)
          /\ server.status = "timed_out" => server.clock = DeadlineTicks
          /\ ~TerminalResult(cells) =>
                (server.status # "finished" /\ pc \notin AfterWait))
    /\ ((TerminalResult(cells) /\ server.status \in {"serving", "draining"}) ~>
            (ListenerStopped /\ pc \in AfterWait \cup {"Failed"}))

C14_Witness ==
    /\ server.status = "finished"
    /\ server.clock < DeadlineTicks
    /\ cells.error = None
    /\ TerminalResult(cells)
    /\ pc = "Exchange"

\* A request with no error parameter that lacks code or state.
Malformed(req) == req.error = None /\ (req.code = None \/ req.state = None)

\* C15: the handler of a request that has no error parameter and lacks
\* code or state answers 400 and leaves the cells, the server (its clock
\* and its status) and the listener as they were; 400 is the answer to
\* exactly these requests; the clock never passes the deadline; and while
\* the cells are empty the listener neither drains nor finishes.
C15_MalformedRequestChangesNothing ==
    /\ [][\A h \in inflight :
            (/\ Malformed(h.req)
             /\ inflight' = inflight \ {h}
             /\ server'.status = server.status) =>
                /\ cells' = cells
                /\ server' = server
                /\ listener' = listener
                /\ [req |-> h.req, status |-> 400] \in replies']_vars
    /\ [](\A r \in replies : Malformed(r.req) <=> r.status = 400)
    /\ [](server.clock <= DeadlineTicks)
    /\ []((cells.code = None /\ cells.error = None) =>
            server.status \in {"not_started", "serving", "timed_out"})

C15_Witness ==
    /\ [req |-> [path |-> "/callback", error |-> None, code |-> None, state |-> None],
        status |-> 400]
         \in replies
    /\ [req |-> [path |-> "/callback", error |-> None, code |-> "c1", state |-> None],
        status |-> 400]
         \in replies
    /\ cells = [code |-> None, state |-> None, error |-> None]
    /\ server.status = "serving"
    /\ server.clock > 0

\* The steps of cmd_auth between the bind and the spawn of the server task.
HoldingSteps == {"GeneratePkce", "ValidateScope", "BuildAuthUrl", "SpawnServer"}

\* C16: from the bind on, the socket is held without a gap, first by
\* cmd_auth and then by the server task, until the task ends; the port
\* never changes; and the port of the redirect_uri in the authorization
\* URL, the port of the redirect_uri in the exchange request and the port
\* of the listener are the same.
C16_PortHeldFromBindToEnd ==
    /\ [](pc \in HoldingSteps => (listener.owner = "orchestrator" /\ listener.port # 0))
    /\ [](server.status \in {"serving", "draining"} => listener.owner = "server")
    /\ []((pc # "Failed" /\ StepIndex(pc) > StepIndex("BuildAuthUrl")) =>
            /\ UrlHost(auth_url.redirect_uri) = "127.0.0.1"
            /\ UrlPortText(auth_url.redirect_uri) = ToString(listener.port))
    /\ [](\A i \in Requests("exchange") :
            /\ http[i].redirect_uri = auth_url.redirect_uri
            /\ UrlPortText(http[i].redirect_uri) = ToString(listener.port))
    /\ [][listener.port # 0 =>
            /\ listener'.port = listener.port
            /\ \/ listener'.owner = listener.owner
               \/ listener.owner = "orchestrator" /\ listener'.owner \in {"server", "closed"}
               \/ listener.owner = "server" /\ listener'.owner = "closed"
                    /\ server'.status \in {"finished", "timed_out"}]_vars

C16_Witness ==
    /\ pc = "ValidateToken"
    /\ listener.port = 49152
    /\ \E i \in Requests("exchange") :
         http[i].redirect_uri = "http://127.0.0.1:49152/callback"
    /\ auth_url.redirect_uri = "http://127.0.0.1:49152/callback"

\* C17: the port bound is the first candidate of 8089, 8090, 8091, 8092,
\* 8093 that no other process holds; a port outside the list is bound only
\* when all five are held; and the bind fails only when all five are held.
C17_FirstFreeCandidate ==
    /\ candidate_ports = << 8089, 8090, 8091, 8092, 8093 >>
    /\ pc = "GeneratePkce" =>
         /\ listener.port # 0
         /\ listener.port \notin occupied
         /\ \A i \in 1..Len(candidate_ports) :
              (/\ candidate_ports[i] \notin occupied
               /\ \A j \in 1..(i - 1) : candidate_ports[j] \in occupied) =>
                  listener.port = candidate_ports[i]
         /\ listener.port \notin CandidatePortSet => CandidatePortSet \subseteq occupied
    /\ (pc = "Failed" /\ failReason = "BindFailed") =>
         (CandidatePortSet \subseteq occupied /\ listener.port = 0)

C17_Witness ==
    /\ pc = "GeneratePkce"
    /\ occupied = {8089, 8091}
    /\ listener.port = 8090

Relations == {"micropub", "authorization_endpoint", "token_endpoint"}

\* The endpoint that discovery returned for a relation.
Endpoint(rel) ==
    IF rel = "micropub" THEN discovery.micropub
    ELSE IF rel = "authorization_endpoint" THEN discovery.auth
    ELSE discovery.token

\* The Link header entries of the response for a relation, and its <link>
\* elements that have an href, in the order of the response.
HeaderOccurrences(rel) == SelectSeq(response.links, LAMBDA e : e.rel = rel)

HtmlOccurrences(rel) ==
    SelectSeq(response.html, LAMBDA e : e.rel = rel /\ e.href # None)

\* C18: for each of the three relations, when the Link headers specify it
\* the endpoint returned is the resolved URL of one of its Link entries,
\* whatever the HTML says; the endpoint is the resolved href of an HTML
\* element only for a relation that no Link header specifies.
C18_LinkHeaderBeforeHtml ==
    discovery.ok =>
        \A rel \in Relations :
            /\ Len(HeaderOccurrences(rel)) > 0 =>
                 \E i \in 1..Len(HeaderOccurrences(rel)) :
                    Endpoint(rel) = resolve_url(discovery.final, HeaderOccurrences(rel)[i].url)
            /\ Len(HeaderOccurrences(rel)) = 0 =>
                 \E i \in 1..Len(HtmlOccurrences(rel)) :
                    Endpoint(rel) = resolve_url(discovery.final, HtmlOccurrences(rel)[i].href)

C18_Witness ==
    /\ discovery.ok
    /\ response.links = SubSeq(HeaderLinks, 1, 2)
    /\ response.html = HtmlLinksRepeated
    /\ discovery.final = "https://final.example/"
    /\ discovery.micropub = "https://final.example/micropub"
    /\ discovery.token = "https://final.example/html-token"

\* C19: within the Link headers, and within the HTML elements, the first
\* occurrence of a relation gives the endpoint.
C19_FirstOccurrenceWins ==
    discovery.ok =>
        \A rel \in Relations :
            Endpoint(rel) =
                IF Len(HeaderOccurrences(rel)) > 0
                THEN resolve_url(discovery.final, HeaderOccurrences(rel)[1].url)
                ELSE resolve_url(discovery.final, HtmlOccurrences(rel)[1].href)

MissingEndpointErrors == {"MissingMicropub", "MissingAuthorization", "MissingToken"}

\* A relation is resolved when a Link entry or an HTML element with an
\* href specifies it.
Resolved(rel) == Len(HeaderOccurrences(rel)) > 0 \/ Len(HtmlOccurrences(rel)) > 0

\* The header pass and the HTML pass of discover_endpoints both ran to
\* their end.
PassesCompleted ==
    /\ response.net = "ok"
    /\ discovery.err \notin {"Network", "InsecureRedirect", "ResolveError"}

\* C20: when both passes have run, discovery succeeds exactly when the
\* three relations are resolved, and otherwise fails with the error of the
\* first relation that is missing; a flow that failed so has bound no
\* port, started no listener, opened no browser, sent no request but the
\* discovery GET and written nothing.
C20_MissingEndpointEndsFlow ==
    /\ PassesCompleted =>
         /\ discovery.ok <=> (\A rel \in Relations : Resolved(rel))
         /\ ~Resolved("micropub") => discovery.err = "MissingMicropub"
         /\ (Resolved("micropub") /\ ~Resolved("authorization_endpoint")) =>
              discovery.err = "MissingAuthorization"
         /\ (Resolved("micropub") /\ Resolved("authorization_endpoint")
               /\ ~Resolved("token_endpoint")) => discovery.err = "MissingToken"
    /\ ~discovery.ok => pc \in {"LoadConfig", "Discover", "Failed"}
    /\ failReason \in MissingEndpointErrors =>
         /\ pc = "Failed"
         /\ failReason = discovery.err
         /\ listener = [port |-> 0, owner |-> "none"]
         /\ server.status = "not_started"
         /\ browser = "no"
         /\ RequestKinds = << "discovery" >>
         /\ disk = InitialDisk

C20_Witness ==
    /\ pc = "Failed"
    /\ failReason = "MissingAuthorization"
    /\ Resolved("micropub")
    /\ Resolved("token_endpoint")
    /\ Len(http) = 1

\* discover_endpoints has returned.
DiscoveryRan == discovery.ok \/ discovery.err # None

\* The host of a domain typed without a scheme.
BareHost(d) == UrlHost("x://" \o d)

\* C21: for a domain given without a scheme, discovery requests
\* http://<domain> when the host is a loopback form (optionally followed by
\* a port) and https://<domain> otherwise, also when the host's name merely
\* contains a loopback string.
C21_SchemeDefaultByLoopbackHost ==
    (DiscoveryRan /\ Find(domain, "://") = 0) =>
        discovery.url = IF BareHost(domain) \in LoopbackHosts
                        THEN "http://" \o domain
                        ELSE "https://" \o domain

\* C22: a domain given with http:// and a host that is not a loopback host
\* is refused with InsecureHttp before any request is sent; http:// with a
\* loopback host is not refused.
C22_PlainHttpOnlyForLoopback ==
    (DiscoveryRan /\ StartsWith(domain, "http://")) =>
        IF UrlHost(domain) \in LoopbackHosts
        THEN discovery.err # "InsecureHttp"
        ELSE discovery.err = "InsecureHttp" /\ http = << >>

\* The characters a scope may contain, as the specification lists them.
ScopeCharacters ==
    "abcdefghijklmnopqrstuvwxyzABCDEFGHIJKLMNOPQRSTUVWXYZ0123456789 -_"

ScopeAcceptable(sc) ==
    \A i \in 1..Len(sc) : Find(ScopeCharacters, CharAt(sc, i)) > 0

\* C23: the scope check lets a scope through exactly when it is empty or
\* made only of ASCII letters, ASCII digits, spaces, hyphens and
\* underscores; any other character ends the flow with InvalidScope.
C23_ScopeAcceptedIffAllowedCharacters ==
    /\ pc = "BuildAuthUrl" => ScopeAcceptable(requested_scope)
    /\ failReason = "InvalidScope" => ~ScopeAcceptable(requested_scope)
    /\ validate_scope(requested_scope) <=> ScopeAcceptable(requested_scope)

C23_Witness ==
    /\ failReason = "InvalidScope"
    /\ Len(scope) = 2
    /\ CharAt(scope, 1) = "a"
    /\ CharAt(scope, 2) = "é"

\* The text t occurs in the text s.
Contains(s, t) ==
    \E i \in 1..(Len(s) - Len(t) + 1) : SubSeq(s, i, i + Len(t) - 1) = t

\* The fields of the authorization URL other than the challenge.
AuthUrlFields ==
    {auth_url.endpoint, auth_url.response_type, auth_url.client_id,
     auth_url.redirect_uri, auth_url.state, auth_url.code_challenge_method,
     auth_url.scope, auth_url.me}

\* C24: the verifier is in no field of the authorization URL (the
\* challenge field holds something else than the verifier), in no discovery
\* request and in no reply to a callback; the one request that carries it is
\* a single token-exchange POST to the discovered token endpoint, sent only
\* at the exchange step.
C24_VerifierOnlyInTokenExchange ==
    pkce.code_verifier # None =>
        /\ auth_url.code_challenge # pkce.code_verifier
        /\ \A f \in AuthUrlFields : ~Contains(f, pkce.code_verifier)
        /\ \A i \in 1..Len(http) :
             IF http[i].kind = "exchange"
             THEN /\ http[i].url = discovery.token
                  /\ http[i].code_verifier = pkce.code_verifier
                  /\ pc \in {"ValidateToken", "SaveToken", "DiscoverMedia",
                             "SaveProfile", "Done", "Failed"}
             ELSE /\ "code_verifier" \notin DOMAIN http[i]
                  /\ ~Contains(http[i].url, pkce.code_verifier)
        /\ Cardinality(Requests("exchange")) <= 1
        /\ \A r \in replies : DOMAIN r = {"req", "status"}

C24_Witness ==
    /\ pc = "ValidateToken"
    /\ Cardinality(Requests("exchange")) = 1
    /\ auth_url.code_challenge # None
    /\ browser = "opened"

\* base64url without padding of the SHA-256 digest, the digest symbolic.
Base64UrlNoPadSha256(v) == "S256(" \o v \o ")"

\* C25: the challenge in the authorization URL is the unpadded base64url
\* SHA-256 of the verifier the same flow sends as code_verifier in the
\* token exchange, and the method sent is S256.
C25_ChallengeDerivedFromSentVerifier ==
    /\ auth_url.code_challenge # None =>
          /\ auth_url.code_challenge = Base64UrlNoPadSha256(pkce.code_verifier)
          /\ auth_url.code_challenge_method = "S256"
    /\ \A i \in Requests("exchange") :
          auth_url.code_challenge = Base64UrlNoPadSha256(http[i].code_verifier)

C25_Witness ==
    /\ Requests("exchange") # {}
    /\ pkce.code_verifier = "v2"
    /\ auth_url.code_challenge = "S256(v2)"

\* C26: the state is two hexadecimal digits for each of the StateBytes
\* random bytes, and no other byte sequence renders to the same state.
C26_StateTwoDigitsPerByte ==
    pkce.state # None =>
        /\ Len(pkce.state) = 2 * StateBytes
        /\ \A b \in ByteSequences : generate_state(b) = pkce.state => b = rng

\* The port a URL names when it writes none.
EffectivePort(u) ==
    IF UrlPortText(u) = "" THEN DefaultPortText(UrlScheme(u)) ELSE UrlPortText(u)

\* The URL a domain input stands for, and the host and port it names.
NamedUrl(d) ==
    IF has_scheme(d) THEN d
    ELSE IF BareHost(d) \in LoopbackHosts THEN "http://" \o d
    ELSE "https://" \o d

Service(d) == << UrlHost(NamedUrl(d)), EffectivePort(NamedUrl(d)) >>

\* C27: a flow whose domain names another host or another port than the
\* domain of a stored profile saves under another profile name, and that
\* profile's stored token stays as it was.
C27_DistinctServicesDistinctProfiles ==
    \A q \in config.profiles :
        (local.profile_name # None /\ Service(q.domain) # Service(domain)) =>
            /\ q.name # local.profile_name
            /\ [name |-> q.name, token |-> "oldtoken"] \in disk.tokens

\* C28: a request to another path than /callback stores nothing in the
\* cells, whatever its query, and the listener does not stop serving on
\* account of it.
C28_OnlyCallbackPathServed ==
    /\ [][\A h \in inflight :
            (h.req.path # "/callback" /\ h \notin inflight') => cells' = cells]_vars
    /\ []((\A r \in replies : r.req.path # "/callback") /\ inflight = {}
            => server.status \in {"not_started", "serving", "timed_out"})

\* The statements of cmd_auth that read the cells.
ReadingSteps == {"CheckError", "ExtractCode", "VerifyState"}

\* C30: the orchestrator passes the join only when the listener task has
\* returned (finished after a result, or failed on the deadline); while it
\* reads the cells and afterwards the task has ended, no handler is running
\* and the cells do not change.
C30_CellsReadAfterListenerEnded ==
    /\ [][(pc = "AwaitServer" /\ pc' # pc) =>
             server.status \in {"finished", "timed_out"}]_vars
    /\ [](pc \in ReadingSteps =>
             /\ server.status \in {"finished", "timed_out"}
             /\ inflight = {}
             /\ PortFree)
    /\ [][(pc \in AfterWait) => (cells' = cells /\ inflight' = {})]_vars

C30_Witness ==
    /\ pc = "ExtractCode"
    /\ server.status = "finished"
    /\ Cardinality(replies) = 2
    /\ cells.code # None
    /\ cells.state # None

\* The post status a Micropub request body asks for (None: it names none).
RequestedPostStatus(body) ==
    IF "properties" \in DOMAIN body
    THEN IF "post-status" \in DOMAIN body.properties
         THEN body.properties["post-status"] ELSE << >>
    ELSE IF "replace" \in DOMAIN body
    THEN IF "post-status" \in DOMAIN body.replace
         THEN body.replace["post-status"] ELSE << >>
    ELSE << >>

\* C29: every Micropub request a push sends, a create or an update, asks
\* for the post status draft and for no other.
C29_PushAlwaysSendsDraftStatus ==
    \A i \in Requests("micropub") :
        /\ RequestedPostStatus(http[i].body) = << "draft" >>
        /\ "action" \in DOMAIN http[i].body =>
              /\ http[i].body.action = "update"
              /\ http[i].body.url = "https://example.com/posts/1"

C29_Witness ==
    /\ pc = "Done"
    /\ \E i \in Requests("micropub") :
         /\ "action" \in DOMAIN http[i].body
         /\ http[i].body.action = "update"
    /\ Requests("upload") # {}
    /\ draft.status = "server-draft"

\* The callback requests that were answered as successful and carried the
\* given code together with the given state.
DeliveredWith(code, state) ==
    { r \in replies : /\ r.status = 200 /\ r.req.error = None
                      /\ r.req.code = code /\ r.req.state = state }

\* C31: the authorization code sent to the token endpoint was delivered by
\* a callback request whose own state parameter is the flow's CSRF state:
\* the code and the state are never taken from two different requests.
C31_CodeAndStateFromOneRequest ==
    \A i \in Requests("exchange") : DeliveredWith(http[i].code, pkce.state) # {}

\* C32: a flow fails with the callback timeout only while the cells hold no
\* terminal result: an error, or a code with its state, stored before the
\* 5-minute deadline is never given up for the timeout.
C32_TimeoutOnlyWhilePending ==
    (pc = "Failed" /\ failReason = "Timeout") => ~TerminalResult(cells)

\* The relations discover_endpoints assigns.
UsedRelations == {"micropub", "authorization_endpoint", "token_endpoint"}

IsUsedLink(e) == e.rel \in UsedRelations

\* A response without the Link entries of other relations.
WithoutUnusedLinks(resp) == [resp EXCEPT !.links = SelectSeq(@, IsUsedLink)]

\* What discovery hands to its caller: success or the failure, and the
\* three endpoints.
DiscoveryOutcome(d) ==
    [ok |-> d.ok, err |-> d.err, micropub |-> d.micropub, auth |-> d.auth,
     token |-> d.token]

\* C33: Link entries whose relation is none of micropub,
\* authorization_endpoint and token_endpoint have no effect: discovery on
\* the response gives what it gives on the response without them, the
\* same endpoints and the same success or failure.
C33_UnusedRelationsHaveNoEffect ==
    response # NoResponse =>
        DiscoveryOutcome(discovery) =
            DiscoveryOutcome(discover_endpoints(domain, WithoutUnusedLinks(response)))

\* A callback request that carries an error parameter beside a code and a
\* state.
ErrorWithCode(req) == req.error # None /\ req.code # None /\ req.state # None

\* The handling of such a request stores its error and leaves the code and
\* state cells as they were.
ErrorWithCodeStoresOnlyError ==
    \A r \in replies' \ replies :
        ErrorWithCode(r.req) =>
            /\ cells'.error = r.req.error
            /\ cells'.code = cells.code
            /\ cells'.state = cells.state

\* C34: a callback request carrying an error parameter together with code
\* and state parameters stores only the error, the code and state cells
\* are left untouched, and the flow fails as authorization denied.
C34_ErrorWithCodeIsDenied ==
    /\ [][ErrorWithCodeStoresOnlyError]_vars
    /\ []((Terminated /\ \E r \in replies : ErrorWithCode(r.req)) =>
            (pc = "Failed" /\ failReason = "AuthorizationDenied"))

Creates == { i \in Requests("micropub") : "type" \in DOMAIN http[i].body }

\* Every command run so far on the draft has succeeded or is still running.
AllSucceeded == \A i \in 1..Len(history) : history[i].result # "failed"

PushSucceeded ==
    \E i \in 1..Len(history) : history[i].command = "push" /\ history[i].result = "ok"

Returned(command) ==
    /\ pc = "Done"
    /\ history # << >>
    /\ history[Len(history)].command = command

\* A Micropub request sent after a successful push is an update of the
\* URL the draft records; the one publish sends asks for the post status
\* published.
LaterRequestsUpdate ==
    (PushSucceeded /\ pc \in {"PushSend", "PublishSend"} /\ Len(http') > Len(http)) =>
        /\ "action" \in DOMAIN http'[Len(http')].body
        /\ http'[Len(http')].body.action = "update"
        /\ http'[Len(http')].body.url = draft.url
        /\ draft.url # None
        /\ RequestedPostStatus(http'[Len(http')].body) =
               IF pc = "PublishSend" THEN << "published" >> ELSE << "draft" >>

\* C36: in a sequence of successful push and publish commands on one draft
\* at most one create request is sent; a successful push leaves the draft
\* with the status server-draft and the server's URL, every later push
\* and the publish send an update of that URL (the publish with the post
\* status published), and after the publish the draft is in the archive
\* and no longer in the drafts directory.
C36_AtMostOneCreate ==
    /\ [][LaterRequestsUpdate]_vars
    /\ [](AllSucceeded =>
            /\ Cardinality(Creates) <= 1
            /\ Returned("push") =>
                 /\ draft.exists
                 /\ draft.status = "server-draft"
                 /\ draft.url = push.server_url
                 /\ draft.url # None
            /\ Returned("publish") =>
                 /\ ~draft.exists
                 /\ archive.exists
                 /\ archive.status = "published")

C36_Witness ==
    /\ Len(history) = 3
    /\ history[1] = [command |-> "push", result |-> "ok"]
    /\ history[2] = [command |-> "push", result |-> "ok"]
    /\ Returned("publish")
    /\ Cardinality(Creates) = 1
    /\ Cardinality(Requests("micropub")) = 3
    /\ ~draft.exists
    /\ archive.status = "published"

\* C37: a push of a draft that has a URL and a status other than draft,
\* server-draft or none (an already published post) fails without any
\* effect on the server: no media file is uploaded, no Micropub request is
\* sent, and the draft file stays as it is.
C37_PublishedPostPushHasNoEffect ==
    overwrites_published(draft) =>
        /\ Requests("upload") = {}
        /\ Requests("micropub") = {}
        /\ pc \notin {"PushSend", "PushSave", "Done"}

\* ---------------------------------------------------------------------------
\* The terminal UI (tui/app.rs, tui/mod.rs): one action per key press handled
\* by run_app.  The preview pane and the status and error messages are not
\* modelled; keys that change nothing but those ('Enter' outside date input,
\* unbound keys) are left out.  A file in drafts_dir is "unused" (id not yet
\* generated), "valid" (Draft::load succeeds), "invalid" (a file that does
\* not parse), "published" (archived by cmd_publish) or "deleted".
\* ---------------------------------------------------------------------------

\* The answers fetch_posts can give; a failed fetch leaves the list empty.
PostLists == { << >>, << "p1" >>, << "p1", "p2" >> }

\* The answers fetch_media can give; a failed fetch leaves the list empty.
MediaLists == { << >>, << "m1", "m2" >> }

\* A date parse_from_rfc3339 accepts.
SampleDate == "2024-01-15T10:30:00Z"

\* The characters the user types in date-input mode: the next character of
\* SampleDate, or a character that is no part of a date as the first one.
TypedChars(input) ==
    { CharAt(SampleDate, i) : i \in { k \in 1..Len(SampleDate) :
                                        input = SubSeq(SampleDate, 1, k - 1) } }
        \cup (IF input = "" THEN { "x" } ELSE {})

\* DateTime::parse_from_rfc3339 on the inputs TypedChars can build: every
\* proper prefix of SampleDate lacks its time zone, and "x" is no date.
parse_from_rfc3339(input) == input = SampleDate

\* The ids Draft::list_all returns that Draft::load accepts, in directory order.
load_drafts(dir) ==
    LET ids == [i \in 1..MaxDrafts |-> "d" \o ToString(i)]
        loads(id) == dir[id] = "valid"
    IN SelectSeq(ids, loads)

HasFile(dir, id) == dir[id] \in { "valid", "invalid" }

awaiting_confirmation(a) == a.confirmation_action.kind # "None"

awaiting_date_input(a) == a.confirmation_action.kind = "BackdateDraft"

next_tab(a) ==
    [a EXCEPT !.current_tab = CASE a.current_tab = "Drafts" -> "Posts"
                                [] a.current_tab = "Posts" -> "Media"
                                [] OTHER -> "Drafts"]

previous_tab(a) ==
    [a EXCEPT !.current_tab = CASE a.current_tab = "Drafts" -> "Media"
                                [] a.current_tab = "Posts" -> "Drafts"
                                [] OTHER -> "Posts"]

next_index(selected, len) == IF len > 0 THEN (selected + 1) % len ELSE selected

next_item(a) ==
    CASE a.current_tab = "Drafts" ->
            [a EXCEPT !.selected_draft = next_index(@, Len(a.drafts))]
      [] a.current_tab = "Posts" ->
            [a EXCEPT !.selected_post = next_index(@, Len(a.posts))]
      [] OTHER ->
            [a EXCEPT !.selected_media = next_index(@, Len(a.media))]

previous_index(selected, len) ==
    IF len > 0 THEN (IF selected = 0 THEN len - 1 ELSE selected - 1) ELSE selected

previous_item(a) ==
    CASE a.current_tab = "Drafts" ->
            [a EXCEPT !.selected_draft = previous_index(@, Len(a.drafts))]
      [] a.current_tab = "Posts" ->
            [a EXCEPT !.selected_post = previous_index(@, Len(a.posts))]
      [] OTHER ->
            [a EXCEPT !.selected_media = previous_index(@, Len(a.media))]

\* The variant that asks for the first draft of the list.
request_action_first(a, kind) ==
    IF a.current_tab # "Drafts" \/ a.drafts = << >> THEN a
    ELSE IF a.selected_draft < Len(a.drafts)
         THEN [a EXCEPT !.confirmation_action = [kind |-> kind, id |-> a.drafts[1]]]
         ELSE a

\* publish_draft, delete_item and backdate_draft: the pending action takes
\* the id of drafts.get(selected_draft), if there is one.
request_action(a, kind) ==
    IF a.current_tab # "Drafts" \/ a.drafts = << >> THEN a
    ELSE IF a.selected_draft < Len(a.drafts)
         THEN [a EXCEPT !.confirmation_action =
                            [kind |-> kind, id |-> a.drafts[a.selected_draft + 1]]]
         ELSE a

publish_draft(a) == request_action(a, "PublishDraft")

delete_item(a) == request_action(a, "DeleteDraft")

backdate_draft(a) ==
    IF request_action(a, "BackdateDraft") = a THEN a
    ELSE [request_action(a, "BackdateDraft") EXCEPT !.date_input = ""]

\* The variant that leaves the typed date in place.
cancel_action_keeping_input(a) == [a EXCEPT !.confirmation_action = NoAction]

cancel_action(a) == [a EXCEPT !.confirmation_action = NoAction, !.date_input = ""]

clear_error(a) == [a EXCEPT !.quit_requested = FALSE]

add_date_char(a, c) == [a EXCEPT !.date_input = @ \o c]

delete_date_char(a) ==
    [a EXCEPT !.date_input = IF @ = "" THEN "" ELSE SubSeq(@, 1, Len(@) - 1)]

\* The tail of a successful publish or delete: load_drafts, then one step back
\* if the selection fell off the end.
reload_after_removal(a, dir) ==
    [a EXCEPT !.drafts = load_drafts(dir),
              !.selected_draft = IF @ >= Len(load_drafts(dir)) /\ @ > 0
                                 THEN @ - 1 ELSE @]

reload_and_select_draft(a, dir, id) ==
    [a EXCEPT !.drafts = load_drafts(dir),
              !.selected_draft =
                  IF \E i \in 1..Len(load_drafts(dir)) : load_drafts(dir)[i] = id
                  THEN (CHOOSE i \in 1..Len(load_drafts(dir)) :
                            load_drafts(dir)[i] = id) - 1
                  ELSE @]

Running == pc = "run_app"

\* What no key handler touches.
TuiFrame ==
    UNCHANGED << domain, scope, history, archive, rng, draft, push, disk, config,
                 discovery, http, listener, pkce, auth_url, browser, cells, server,
                 inflight, arrived, local, occupied, response, replies >>

\* 'q': the first press asks, the second returns from run_app.
KeyQuit ==
    /\ Running
    /\ ~awaiting_date_input(app)
    /\ IF app.quit_requested
       THEN /\ pc' = "Done"
            /\ app' = app
       ELSE /\ pc' = pc
            /\ app' = [app EXCEPT !.quit_requested = TRUE]
    /\ UNCHANGED << drafts_dir, failReason >>
    /\ TuiFrame

\* 'j' or Down.
KeyDown ==
    /\ Running
    /\ ~awaiting_date_input(app)
    /\ app' = next_item(app)
    /\ UNCHANGED << drafts_dir, pc, failReason >>
    /\ TuiFrame

\* 'k' or Up.
KeyUp ==
    /\ Running
    /\ ~awaiting_date_input(app)
    /\ app' = previous_item(app)
    /\ UNCHANGED << drafts_dir, pc, failReason >>
    /\ TuiFrame

KeyTab ==
    /\ Running
    /\ ~awaiting_date_input(app)
    /\ app' = next_tab(app)
    /\ UNCHANGED << drafts_dir, pc, failReason >>
    /\ TuiFrame

KeyBackTab ==
    /\ Running
    /\ ~awaiting_date_input(app)
    /\ app' = previous_tab(app)
    /\ UNCHANGED << drafts_dir, pc, failReason >>
    /\ TuiFrame

\* The ways the file system can answer a key handler: it works, or
\* get_drafts_dir fails, or Draft::list_all fails inside load_drafts (after
\* the list was cleared).
FsAnswers == { "ok", "dir_failed", "list_failed" }

\* confirm_action.  An error of get_drafts_dir or load_drafts leaves run_app;
\* cmd_publish succeeds only on a draft that loads, and archives it;
\* remove_file succeeds only on a file that is there.  ok is whether the
\* server or the removal answers.
ConfirmAction(fs, ok) ==
    LET action == app.confirmation_action
        id == action.id
        done(a) == [a EXCEPT !.confirmation_action = NoAction, !.date_input = ""]
        removes == action.kind = "DeleteDraft" /\ ok /\ HasFile(drafts_dir, id)
        publishes ==
            /\ action.kind \in { "PublishDraft", "BackdateDraft" }
            /\ action.kind = "BackdateDraft" => parse_from_rfc3339(app.date_input)
            /\ ok
            /\ drafts_dir[id] = "valid"
        needs_dir == action.kind = "BackdateDraft" => parse_from_rfc3339(app.date_input)
    IN IF needs_dir /\ fs = "dir_failed"
       THEN /\ Bail("get_drafts_dir")
            /\ UNCHANGED << app, drafts_dir >>
       ELSE IF (removes \/ publishes) /\ fs = "list_failed"
       THEN /\ Bail("load_drafts")
            /\ drafts_dir' = [drafts_dir EXCEPT ![id] = IF removes THEN "deleted"
                                                       ELSE "published"]
            /\ app' = [app EXCEPT !.drafts = << >>]
       ELSE /\ drafts_dir' = IF removes THEN [drafts_dir EXCEPT ![id] = "deleted"]
                             ELSE IF publishes
                                  THEN [drafts_dir EXCEPT ![id] = "published"]
                                  ELSE drafts_dir
            /\ app' = IF removes \/ publishes
                      THEN done(reload_after_removal(app, drafts_dir'))
                      ELSE done(app)
            /\ UNCHANGED << pc, failReason >>

\* 'y' while a publish or a delete is pending.
KeyYes ==
    /\ Running
    /\ ~awaiting_date_input(app)
    /\ awaiting_confirmation(app)
    /\ \E fs \in FsAnswers, ok \in BOOLEAN : ConfirmAction(fs, ok)
    /\ TuiFrame

\* 'n' while a publish or a delete is pending.
KeyNo ==
    /\ Running
    /\ ~awaiting_date_input(app)
    /\ awaiting_confirmation(app)
    /\ app' = cancel_action(app)
    /\ UNCHANGED << drafts_dir, pc, failReason >>
    /\ TuiFrame

\* 'p'.
KeyPublish ==
    /\ Running
    /\ ~awaiting_date_input(app)
    /\ app' = publish_draft(app)
    /\ UNCHANGED << drafts_dir, pc, failReason >>
    /\ TuiFrame

\* 'd'.
KeyDelete ==
    /\ Running
    /\ ~awaiting_date_input(app)
    /\ app' = delete_item(app)
    /\ UNCHANGED << drafts_dir, pc, failReason >>
    /\ TuiFrame

\* 'b'.
KeyBackdate ==
    /\ Running
    /\ ~awaiting_date_input(app)
    /\ app' = backdate_draft(app)
    /\ UNCHANGED << drafts_dir, pc, failReason >>
    /\ TuiFrame

\* 'e': edit_item, suspend_and_edit_draft, reload_and_select_draft.  The
\* editor can fail, and it can leave a file that no longer parses.
KeyEdit ==
    /\ Running
    /\ ~awaiting_date_input(app)
    /\ app.current_tab = "Drafts"
    /\ app.selected_draft < Len(app.drafts)
    /\ LET id == app.drafts[app.selected_draft + 1]
       IN IF ~HasFile(drafts_dir, id)
          THEN UNCHANGED << app, drafts_dir >>
          ELSE \E saved \in { "failed", "valid", "invalid" }, fs \in FsAnswers :
                  IF saved = "failed" \/ fs = "dir_failed"
                  THEN UNCHANGED << app, drafts_dir >>
                  ELSE /\ drafts_dir' = [drafts_dir EXCEPT ![id] = saved]
                       /\ app' = IF fs = "list_failed"
                                 THEN [app EXCEPT !.drafts = << >>]
                                 ELSE reload_and_select_draft(app, drafts_dir', id)
    /\ UNCHANGED << pc, failReason >>
    /\ TuiFrame

\* 'n' with nothing pending: new_draft, suspend_and_create_draft (the draft
\* is saved before the editor starts), reload_and_select_draft.
KeyNew ==
    /\ Running
    /\ ~awaiting_confirmation(app)
    /\ \E i \in 1..MaxDrafts :
          /\ drafts_dir["d" \o ToString(i)] = "unused"
          /\ \A k \in 1..(i - 1) : drafts_dir["d" \o ToString(k)] # "unused"
          /\ \E saved \in { "failed", "valid", "invalid" }, fs \in FsAnswers :
                IF fs = "dir_failed"
                THEN UNCHANGED << app, drafts_dir >>
                ELSE IF saved = "failed"
                THEN /\ drafts_dir' = [drafts_dir EXCEPT !["d" \o ToString(i)] = "valid"]
                     /\ app' = app
                ELSE /\ drafts_dir' = [drafts_dir EXCEPT !["d" \o ToString(i)] = saved]
                     /\ app' = IF fs = "list_failed"
                               THEN [app EXCEPT !.drafts = << >>]
                               ELSE reload_and_select_draft(app, drafts_dir',
                                                            "d" \o ToString(i))
    /\ UNCHANGED << pc, failReason >>
    /\ TuiFrame

\* 'r': refresh reloads the list of the current tab.
KeyRefresh ==
    /\ Running
    /\ ~awaiting_date_input(app)
    /\ CASE app.current_tab = "Drafts" ->
               \E fs \in { "ok", "list_failed" } :
                  IF fs = "ok"
                  THEN /\ app' = [app EXCEPT !.drafts = load_drafts(drafts_dir)]
                       /\ UNCHANGED << pc, failReason >>
                  ELSE /\ app' = [app EXCEPT !.drafts = << >>]
                       /\ Bail("load_drafts")
         [] app.current_tab = "Posts" ->
               /\ \E answer \in PostLists : app' = [app EXCEPT !.posts = answer]
               /\ UNCHANGED << pc, failReason >>
         [] OTHER ->
               /\ \E answer \in MediaLists : app' = [app EXCEPT !.media = answer]
               /\ UNCHANGED << pc, failReason >>
    /\ UNCHANGED drafts_dir
    /\ TuiFrame

\* Esc outside date input.
KeyEsc ==
    /\ Running
    /\ ~awaiting_date_input(app)
    /\ app' = clear_error(app)
    /\ UNCHANGED << drafts_dir, pc, failReason >>
    /\ TuiFrame

\* Enter in date input.
KeyDateEnter ==
    /\ Running
    /\ awaiting_date_input(app)
    /\ \E fs \in FsAnswers, ok \in BOOLEAN : ConfirmAction(fs, ok)
    /\ TuiFrame

\* Esc in date input.
KeyDateEsc ==
    /\ Running
    /\ awaiting_date_input(app)
    /\ app' = cancel_action(app)
    /\ UNCHANGED << drafts_dir, pc, failReason >>
    /\ TuiFrame

\* Backspace in date input.
KeyDateBackspace ==
    /\ Running
    /\ awaiting_date_input(app)
    /\ app' = delete_date_char(app)
    /\ UNCHANGED << drafts_dir, pc, failReason >>
    /\ TuiFrame

\* A character in date input.
KeyDateChar ==
    /\ Running
    /\ awaiting_date_input(app)
    /\ \E c \in TypedChars(app.date_input) : app' = add_date_char(app, c)
    /\ UNCHANGED << drafts_dir, pc, failReason >>
    /\ TuiFrame

\* App::new on any drafts directory and any server answers.
TuiInit ==
    /\ domain = "example.com"
    /\ scope = None
    /\ pc = "run_app"
    /\ failReason = None
    /\ disk = InitialDisk
    /\ config = NoConfig
    /\ discovery = NotDiscovered
    /\ http = << >>
    /\ listener = [port |-> 0, owner |-> "none"]
    /\ pkce = NoPkce
    /\ auth_url = NoAuthUrl
    /\ browser = "no"
    /\ cells = [code |-> None, state |-> None, error |-> None]
    /\ server = [status |-> "not_started", clock |-> 0, poll_due |-> FALSE]
    /\ inflight = {}
    /\ arrived = 0
    /\ local = NoLocal
    /\ occupied = {}
    /\ response = NoResponse
    /\ replies = {}
    /\ rng = << >>
    /\ draft = NoDraft
    /\ push = NoPush
    /\ archive = NoDraft
    /\ history = << >>
    /\ drafts_dir \in [DraftIds -> { "unused", "valid", "invalid" }]
    /\ \A i \in 1..MaxDrafts : \A k \in 1..(i - 1) :
          drafts_dir["d" \o ToString(k)] = "unused"
              => drafts_dir["d" \o ToString(i)] = "unused"
    /\ \E posts \in PostLists, media \in MediaLists :
          app = [NoApp EXCEPT !.drafts = load_drafts(drafts_dir),
                              !.posts = posts, !.media = media]

TuiNext ==
    \/ KeyQuit
    \/ KeyDown
    \/ KeyUp
    \/ KeyTab
    \/ KeyBackTab
    \/ KeyYes
    \/ KeyNo
    \/ KeyPublish
    \/ KeyDelete
    \/ KeyBackdate
    \/ KeyEdit
    \/ KeyNew
    \/ KeyRefresh
    \/ KeyEsc
    \/ KeyDateEnter
    \/ KeyDateEsc
    \/ KeyDateBackspace
    \/ KeyDateChar

TuiSpec == TuiInit /\ [][TuiNext]_vars

\* ---------------------------------------------------------------------------
\* The terminal UI's confirmations, selections and date input.
\* ---------------------------------------------------------------------------

Gone(dir, id) == dir[id] \in { "published", "deleted" }

Confirms == KeyYes \/ KeyDateEnter

Cancels == KeyNo \/ KeyDateEsc

Requests_an_action == KeyPublish \/ KeyDelete \/ KeyBackdate

\* A draft file goes away only in a confirming step, and it is the draft of
\* the pending action that goes, deleted or published as that action says.
OnlyConfirmRemoves ==
    \A id \in DraftIds :
        (Gone(drafts_dir', id) /\ ~Gone(drafts_dir, id)) =>
            /\ Confirms
            /\ app.confirmation_action.id = id
            /\ drafts_dir'[id] = "deleted" <=> app.confirmation_action.kind = "DeleteDraft"
            /\ drafts_dir'[id] = "published" <=>
                   app.confirmation_action.kind \in { "PublishDraft", "BackdateDraft" }

\* An action becomes pending only by 'p', 'd' or 'b' on the Drafts tab, for
\* the draft selected at that moment; it stays until a confirm or a cancel.
PendingIsTheSelectedDraft ==
    /\ (app'.confirmation_action # app.confirmation_action
            /\ app'.confirmation_action # NoAction) =>
          /\ Requests_an_action
          /\ app.current_tab = "Drafts"
          /\ app.selected_draft < Len(app.drafts)
          /\ app'.confirmation_action.id = app.drafts[app.selected_draft + 1]
    /\ (app.confirmation_action # NoAction /\ app'.confirmation_action = NoAction) =>
          (Confirms \/ Cancels)

\* While run_app goes on, a confirm or a cancel leaves nothing pending.
NothingPendingAfterwards ==
    ((Confirms \/ Cancels) /\ pc' = "run_app") => app'.confirmation_action = NoAction

\* C38: in the TUI a draft is published or deleted only by a confirming key
\* ('y', or Enter in date input) pressed while an action is pending; the draft
\* acted on is the one that was selected when 'p', 'd' or 'b' was pressed,
\* whatever was selected or shown since; and after a confirm or a cancel no
\* action is pending.
C38_OnlyConfirmedActionsAct ==
    [][OnlyConfirmRemoves /\ PendingIsTheSelectedDraft /\ NothingPendingAfterwards]_vars

\* One draft was deleted and the second published, confirmed from another tab
\* than the one the requests were made on.
C38_Witness ==
    /\ pc = "run_app"
    /\ drafts_dir["d1"] = "deleted"
    /\ drafts_dir["d2"] = "published"
    /\ app.confirmation_action = NoAction
    /\ app.current_tab = "Media"
    /\ app.drafts = << >>

InRange(selected, list) == list # << >> => selected < Len(list)

\* C39: in the TUI the selected index of every non-empty list (drafts, posts,
\* media) is smaller than the list's length, whatever keys were pressed and
\* however the lists changed on reload.
C39_SelectionInRange ==
    pc = "run_app" =>
        /\ InRange(app.selected_draft, app.drafts)
        /\ InRange(app.selected_post, app.posts)
        /\ InRange(app.selected_media, app.media)

DateInputOnlyInDateMode ==
    /\ (awaiting_date_input(app') /\ ~awaiting_date_input(app)) => app'.date_input = ""
    /\ app'.date_input # app.date_input => awaiting_date_input(app)
    /\ (awaiting_date_input(app) /\ ~awaiting_date_input(app')) => app'.date_input = ""
    /\ ((KeyDateEnter \/ KeyDateEsc) /\ pc' = "run_app") =>
          (app'.date_input = "" /\ ~awaiting_date_input(app'))

\* C40: in the TUI date_input is non-empty only while a BackdateDraft
\* confirmation is pending: date-input mode starts with an empty input, the
\* input changes only in that mode, and Enter or Esc there clears it.
C40_DateInputOnlyWhileBackdating ==
    /\ [](app.date_input # "" => awaiting_date_input(app))
    /\ [][DateInputOnlyInDateMode]_vars

\* The full date has been typed for the second draft of the list.
C40_Witness ==
    /\ pc = "run_app"
    /\ app.date_input = SampleDate
    /\ app.confirmation_action = [kind |-> "BackdateDraft", id |-> "d2"]

==============================================================================
